---- MODULE Spec2Model ----
(***************************************************************************)
(* The intersection, shading and recursive light-transport engine of the   *)
(* ray tracer: Intersections (sorted ledger, hit, prepare_computations),   *)
(* Shape (intersect, normal_at), lightning, and World (intersect_world,    *)
(* is_shadowed, shade_hit, reflected_color, refracted_color, color_at),    *)
(* set_transform with its cached inverse, and Camera (ray_for_pixel,       *)
(* render, render_par) writing to a Canvas.                                *)
(*                                                                         *)
(* f32 values are fixed-point integers: the f32 value v is the integer     *)
(* v * ONE, so that EPSILON = 0.001 is the integer 1.                      *)
(***************************************************************************)
EXTENDS Integers, Sequences, FiniteSets, TLC

\* ------------------------------------------------------------------------
\* Bounds of the model
\* ------------------------------------------------------------------------
MaxLen == 2          \* longest vector handed to Intersections::new / extend
MaxLedger == 4       \* longest Intersections list built by extend
MaxRemaining == 2    \* largest starting budget of a primary color_at call
MaxObjects == 2      \* most objects in a world
MaxSize == 2         \* largest HSIZE and VSIZE of a camera that renders

\* ------------------------------------------------------------------------
\* Numbers (src/tuples.rs)
\* ------------------------------------------------------------------------
ONE == 1000
EPSILON == 1

Abs(a) == IF a < 0 THEN -a ELSE a
Sgn(a) == IF a < 0 THEN -1 ELSE 1

\* a * b and a / b on f32, rounded toward zero to the fixed-point grid
\* (the product is taken in parts to stay within the integer range)
FMul(a, b) ==
    LET qa == Abs(a) \div ONE
        ra == Abs(a) % ONE
        qb == Abs(b) \div ONE
        rb == Abs(b) % ONE
    IN Sgn(a) * Sgn(b) *
       (qa * qb * ONE + qa * rb + ra * qb + (ra * rb) \div ONE)
FDiv(a, b) == Sgn(a) * Sgn(b) * ((Abs(a) * ONE) \div Abs(b))

\* r * r <= a, exactly
SquareAtMost(r, a) ==
    \/ FMul(r, r) < a
    \/ FMul(r, r) = a /\ ((r % ONE) * (r % ONE)) % ONE = 0

RECURSIVE SqrtIter(_, _, _)
SqrtIter(a, lo, hi) ==
    IF lo >= hi THEN lo
    ELSE LET mid == (lo + hi + 1) \div 2
         IN IF SquareAtMost(mid, a) THEN SqrtIter(a, mid, hi)
                                    ELSE SqrtIter(a, lo, mid - 1)

\* f32::sqrt of a non-negative value, rounded down to the grid
FSqrt(a) == SqrtIter(a, 0, IF a > ONE THEN a ELSE ONE)

\* f32::powi / powf with a whole exponent
RECURSIVE FPow(_, _)
FPow(a, n) ==
    IF n = 0 THEN ONE
    ELSE IF n % 2 = 0 THEN LET h == FPow(a, n \div 2) IN FMul(h, h)
    ELSE FMul(a, FPow(a, n - 1))

\* Option<T>
None == [tag |-> "None"]
Some(v) == [tag |-> "Some", val |-> v]

\* ------------------------------------------------------------------------
\* Intersection and Intersections (src/intersections.rs)
\* ------------------------------------------------------------------------
Intersection(t, object_id) == [t |-> t, object_id |-> object_id]

\* Ord for Intersection: by t only
Less(a, b) == a.t < b.t

\* Vec::sort, a stable sort under Ord: x goes after every element that is
\* not greater than it
RECURSIVE InsertSorted(_, _)
InsertSorted(s, x) ==
    IF s = <<>> THEN <<x>>
    ELSE IF Less(x, Head(s)) THEN <<x>> \o s
    ELSE <<Head(s)>> \o InsertSorted(Tail(s), x)

RECURSIVE Sort(_)
Sort(s) == IF s = <<>> THEN <<>>
           ELSE InsertSorted(Sort(SubSeq(s, 1, Len(s) - 1)), s[Len(s)])

\* Intersections::new
IntersectionsNew(v) == Sort(v)

\* extend that appends and leaves the list as it then is
IntersectionsAppend(self, other) == self \o other

\* Intersections::extend
IntersectionsExtend(self, other) == Sort(self \o other)

\* Intersections::hit: the loop over the list, result carried along
RECURSIVE HitLoop(_, _)
HitLoop(s, result) ==
    IF s = <<>> THEN result
    ELSE LET intersection == Head(s)
             next == IF intersection.t > 0
                     THEN IF result = None THEN Some(intersection)
                          ELSE IF result.val.t > intersection.t
                               THEN Some(intersection)
                               ELSE result
                     ELSE result
         IN HitLoop(Tail(s), next)

\* hit with the comparison of the two candidates turned around
RECURSIVE HitLoopFarthest(_, _)
HitLoopFarthest(s, result) ==
    IF s = <<>> THEN result
    ELSE LET intersection == Head(s)
             next == IF intersection.t > 0
                     THEN IF result = None THEN Some(intersection)
                          ELSE IF result.val.t < intersection.t
                               THEN Some(intersection)
                               ELSE result
                     ELSE result
         IN HitLoopFarthest(Tail(s), next)

HitFarthest(s) == HitLoopFarthest(s, None)

\* hit that lets t = 0 through
RECURSIVE HitLoopFromZero(_, _)
HitLoopFromZero(s, result) ==
    IF s = <<>> THEN result
    ELSE LET intersection == Head(s)
             next == IF intersection.t >= 0
                     THEN IF result = None THEN Some(intersection)
                          ELSE IF result.val.t > intersection.t
                               THEN Some(intersection)
                               ELSE result
                     ELSE result
         IN HitLoopFromZero(Tail(s), next)

HitFromZero(s) == HitLoopFromZero(s, None)

Hit(s) == HitLoop(s, None)

\* ------------------------------------------------------------------------
\* Point, Vector, Color (src/tuples.rs) and Ray (src/rays.rs): triples
\* ------------------------------------------------------------------------
Add(a, b) == <<a[1] + b[1], a[2] + b[2], a[3] + b[3]>>
Sub(a, b) == <<a[1] - b[1], a[2] - b[2], a[3] - b[3]>>
Neg(a) == <<-a[1], -a[2], -a[3]>>
MulScalar(a, k) == <<FMul(a[1], k), FMul(a[2], k), FMul(a[3], k)>>
MulColor(a, b) == <<FMul(a[1], b[1]), FMul(a[2], b[2]), FMul(a[3], b[3])>>

dot(a, b) == FMul(a[1], b[1]) + FMul(a[2], b[2]) + FMul(a[3], b[3])
magnitude(a) == FSqrt(FMul(a[1], a[1]) + FMul(a[2], a[2]) + FMul(a[3], a[3]))
normalize(a) ==
    <<FDiv(a[1], magnitude(a)), FDiv(a[2], magnitude(a)), FDiv(a[3], magnitude(a))>>
reflect(a, normal) == Sub(a, MulScalar(normal, FMul(2 * ONE, dot(a, normal))))

Black == <<0, 0, 0>>

Ray(origin, direction) == [origin |-> origin, direction |-> direction]
position(ray, t) == Add(ray.origin, MulScalar(ray.direction, t))

\* ------------------------------------------------------------------------
\* Matrix<4,4> restricted to scaling-then-translation matrices
\* (src/transformations.rs, src/matrices.rs): s is the diagonal, t the
\* last column.
\* ------------------------------------------------------------------------
Identity == [s |-> <<ONE, ONE, ONE>>, t |-> <<0, 0, 0>>]
translation(x, y, z) == [s |-> <<ONE, ONE, ONE>>, t |-> <<x, y, z>>]
scaling(x, y, z) == [s |-> <<x, y, z>>, t |-> <<0, 0, 0>>]

determinant(m) == FMul(FMul(m.s[1], m.s[2]), m.s[3])
is_invertible(m) == determinant(m) # 0

inverse(m) ==
    IF ~is_invertible(m) THEN None
    ELSE Some([s |-> <<FDiv(ONE, m.s[1]), FDiv(ONE, m.s[2]), FDiv(ONE, m.s[3])>>,
               t |-> <<-FDiv(m.t[1], m.s[1]), -FDiv(m.t[2], m.s[2]),
                       -FDiv(m.t[3], m.s[3])>>])

\* Matrix * Point (w = 1) and Matrix * Vector (w = 0)
MulPoint(m, p) ==
    <<FMul(m.s[1], p[1]) + m.t[1], FMul(m.s[2], p[2]) + m.t[2],
      FMul(m.s[3], p[3]) + m.t[3]>>
MulVector(m, v) == <<FMul(m.s[1], v[1]), FMul(m.s[2], v[2]), FMul(m.s[3], v[3])>>
\* transpose(m) * Vector: the translation row only reaches w, which a
\* Vector does not keep
MulTransposeVector(m, v) ==
    <<FMul(m.s[1], v[1]), FMul(m.s[2], v[2]), FMul(m.s[3], v[3])>>

\* ------------------------------------------------------------------------
\* Material (src/materials.rs)
\* ------------------------------------------------------------------------
MaterialDefault ==
    [color |-> <<ONE, ONE, ONE>>, ambient |-> 100, diffuse |-> 900,
     specular |-> 900, shininess |-> 200, pattern |-> None, reflective |-> 0,
     transparency |-> 0, refractive_index |-> ONE]

\* Material::set_pattern
set_pattern(material, pattern) == [material EXCEPT !.pattern = Some(pattern)]

\* ------------------------------------------------------------------------
\* Shape and TransformData (src/shapes.rs)
\* ------------------------------------------------------------------------
\* Shape::sphere(), Shape::plane(), Shape::test_shape(): identity transform,
\* no cached inverse; the Test variant has its saved_ray cell, empty
ShapeNew(kind) ==
    IF kind = "Test"
    THEN [kind |-> kind, transform |-> Identity, inverse_transform |-> None,
          material |-> MaterialDefault, saved_ray |-> None]
    ELSE [kind |-> kind, transform |-> Identity, inverse_transform |-> None,
          material |-> MaterialDefault]

\* set_transform computing the inverse only while none is cached
set_transform_once(shape, transform) ==
    [shape EXCEPT !.transform = transform,
                  !.inverse_transform =
                      IF @ = None THEN inverse(transform) ELSE @]

set_transform(shape, transform) ==
    [shape EXCEPT !.transform = transform,
                  !.inverse_transform = inverse(transform)]

\* set_material dropping the cached inverse
set_material_uncached(shape, material) ==
    [shape EXCEPT !.material = material, !.inverse_transform = None]

set_material(shape, material) == [shape EXCEPT !.material = material]

get_material(shape) == shape.material
get_transform(shape) == shape.transform
get_inverse_transform(shape) == shape.inverse_transform

\* Shape::with
ShapeWith(kind, transform, material) ==
    set_material(set_transform(ShapeNew(kind), transform), material)

\* world.objects[object_id], ids counted from 0 as in the source
Object(objs, object_id) == objs[object_id + 1]

\* ------------------------------------------------------------------------
\* Intersection::prepare_computations, the n1 / n2 loop
\* (src/intersections.rs lines 55-80)
\* ------------------------------------------------------------------------
Last(s) == s[Len(s)]

\* containers.iter().position(|&x| x == id): first index holding id, 0 if none
Position(containers, id) ==
    IF \E k \in 1..Len(containers) : containers[k] = id
    THEN CHOOSE k \in 1..Len(containers) :
            /\ containers[k] = id
            /\ \A j \in 1..(k - 1) : containers[j] # id
    ELSE 0

\* containers.remove(pos)
Remove(containers, pos) ==
    SubSeq(containers, 1, pos - 1) \o SubSeq(containers, pos + 1, Len(containers))

\* containers as a stack: only the index on top is taken off
ToggleLast(containers, id) ==
    IF containers # <<>> /\ containers[Len(containers)] = id
    THEN SubSeq(containers, 1, Len(containers) - 1)
    ELSE Append(containers, id)

\* one iteration's update of containers
Toggle(containers, id) ==
    IF Position(containers, id) # 0
    THEN Remove(containers, Position(containers, id))
    ELSE Append(containers, id)

RECURSIVE RefractionLoop(_, _, _, _, _, _)
RefractionLoop(s, self, objs, n1, n2, containers) ==
    IF s = <<>> THEN [n1 |-> n1, n2 |-> n2, containers |-> containers]
    ELSE LET i == Head(s)
             n1a == IF i = self /\ containers # <<>>
                    THEN get_material(Object(objs, Last(containers))).refractive_index
                    ELSE n1
             c2 == Toggle(containers, i.object_id)
             n2a == IF i = self /\ c2 # <<>>
                    THEN get_material(Object(objs, Last(c2))).refractive_index
                    ELSE n2
         IN RefractionLoop(Tail(s), self, objs, n1a, n2a, c2)

RefractiveIndices(self, objs, list) ==
    RefractionLoop(list, self, objs, ONE, ONE, <<>>)

\* ------------------------------------------------------------------------
\* Geometry: local intersection and normal (src/spheres.rs, src/planes.rs,
\* src/shapes.rs)
\* ------------------------------------------------------------------------
\* Ray::transform
RayTransform(ray, m) == Ray(MulPoint(m, ray.origin), MulVector(m, ray.direction))

\* Sphere: a ray that only touches the sphere counts as a miss
SphereLocalIntersectStrict(ray, object_id) ==
    LET sphere_to_ray == Sub(ray.origin, <<0, 0, 0>>)
        a == dot(ray.direction, ray.direction)
        b == 2 * dot(ray.direction, sphere_to_ray)
        c == dot(sphere_to_ray, sphere_to_ray) - ONE
        discriminant == FMul(b, b) - FMul(4 * a, c)
    IN IF discriminant <= 0 THEN IntersectionsNew(<<>>)
       ELSE LET t1 == FDiv(-b - FSqrt(discriminant), 2 * a)
                t2 == FDiv(-b + FSqrt(discriminant), 2 * a)
            IN IntersectionsNew(<<Intersection(t1, object_id),
                                  Intersection(t2, object_id)>>)

\* Sphere: unit sphere at the origin
SphereLocalIntersect(ray, object_id) ==
    LET sphere_to_ray == Sub(ray.origin, <<0, 0, 0>>)
        a == dot(ray.direction, ray.direction)
        b == 2 * dot(ray.direction, sphere_to_ray)
        c == dot(sphere_to_ray, sphere_to_ray) - ONE
        discriminant == FMul(b, b) - FMul(4 * a, c)
    IN IF discriminant < 0 THEN IntersectionsNew(<<>>)
       ELSE LET t1 == FDiv(-b - FSqrt(discriminant), 2 * a)
                t2 == FDiv(-b + FSqrt(discriminant), 2 * a)
            IN IntersectionsNew(<<Intersection(t1, object_id),
                                  Intersection(t2, object_id)>>)

\* Plane: a ray lying in the plane is answered with t = 0
PlaneLocalIntersectCoplanar(ray, object_id) ==
    IF Abs(ray.direction[2]) < EPSILON /\ ray.origin[2] # 0
    THEN IntersectionsNew(<<>>)
    ELSE IF Abs(ray.direction[2]) < EPSILON
    THEN IntersectionsNew(<<Intersection(0, object_id)>>)
    ELSE IntersectionsNew(
            <<Intersection(FDiv(-ray.origin[2], ray.direction[2]), object_id)>>)

\* Plane: the xz plane
PlaneLocalIntersect(ray, object_id) ==
    IF Abs(ray.direction[2]) < EPSILON THEN IntersectionsNew(<<>>)
    ELSE IntersectionsNew(
            <<Intersection(FDiv(-ray.origin[2], ray.direction[2]), object_id)>>)

\* Shape::intersect handing the local intersection the ray moved by the
\* matrix itself when no inverse is cached
ShapeIntersectByMatrix(shape, ray, object_id) ==
    LET local_ray == IF get_inverse_transform(shape) = None
                     THEN RayTransform(ray, shape.transform)
                     ELSE RayTransform(ray, get_inverse_transform(shape).val)
    IN CASE shape.kind = "Test" -> IntersectionsNew(<<>>)
         [] shape.kind = "Sphere" -> SphereLocalIntersect(local_ray, object_id)
         [] shape.kind = "Plane" -> PlaneLocalIntersect(local_ray, object_id)

\* Shape::intersect
ShapeIntersect(shape, ray, object_id) ==
    LET local_ray == IF get_inverse_transform(shape) = None THEN ray
                     ELSE RayTransform(ray, get_inverse_transform(shape).val)
    IN CASE shape.kind = "Test" -> IntersectionsNew(<<>>)
         [] shape.kind = "Sphere" -> SphereLocalIntersect(local_ray, object_id)
         [] shape.kind = "Plane" -> PlaneLocalIntersect(local_ray, object_id)

\* Shape::intersect storing the ray in a cell of whatever variant it has
ProbedAnyVariant(shape, ray) ==
    [k \in DOMAIN shape \cup {"saved_ray"} |->
        IF k = "saved_ray" THEN Some(ray) ELSE shape[k]]

\* the shape after Shape::intersect: TestShape::local_intersect stores the
\* ray it is handed in saved_ray, the other variants write nothing
Probed(shape, ray) ==
    LET local_ray == IF get_inverse_transform(shape) = None THEN ray
                     ELSE RayTransform(ray, get_inverse_transform(shape).val)
    IN IF shape.kind = "Test" THEN [shape EXCEPT !.saved_ray = Some(local_ray)]
       ELSE shape

\* Shape::normal_at leaving the local normal as it is while no inverse is
\* cached
ShapeNormalAtRaw(shape, point) ==
    LET inverse_transform == IF get_inverse_transform(shape) = None THEN Identity
                             ELSE get_inverse_transform(shape).val
        local_point == MulPoint(inverse_transform, point)
        local_normal == IF shape.kind = "Plane" THEN <<0, ONE, 0>>
                        ELSE local_point
        world_normal == MulTransposeVector(inverse_transform, local_normal)
    IN IF get_inverse_transform(shape) = None THEN local_normal
       ELSE normalize(world_normal)

\* Shape::normal_at
ShapeNormalAt(shape, point) ==
    LET inverse_transform == IF get_inverse_transform(shape) = None THEN Identity
                             ELSE get_inverse_transform(shape).val
        local_point == MulPoint(inverse_transform, point)
        local_normal == IF shape.kind = "Plane" THEN <<0, ONE, 0>>
                        ELSE local_point
        world_normal == MulTransposeVector(inverse_transform, local_normal)
    IN normalize(world_normal)

\* ------------------------------------------------------------------------
\* World::intersect_world (src/worlds.rs)
\* ------------------------------------------------------------------------
RECURSIVE IntersectLoop(_, _, _, _)
IntersectLoop(objs, ray, index, intersections) ==
    IF index >= Len(objs) THEN intersections
    ELSE IntersectLoop(objs, ray, index + 1,
            IntersectionsExtend(intersections,
                                ShapeIntersect(Object(objs, index), ray, index)))

\* intersect_world numbering the objects from one
intersect_world_from_one(objs, ray) ==
    LET list == IntersectLoop(objs, ray, 0, <<>>)
    IN [k \in DOMAIN list |-> [list[k] EXCEPT !.object_id = @ + 1]]

\* intersect_world that leaves out the first object of the world
intersect_world_from_second(objs, ray) == IntersectLoop(objs, ray, 1, <<>>)

intersect_world(objs, ray) == IntersectLoop(objs, ray, 0, <<>>)

\* the objects after intersect_world: every object has been intersected
ProbedWorld(objs, ray) == [k \in DOMAIN objs |-> Probed(objs[k], ray)]

\* ------------------------------------------------------------------------
\* Intersection::prepare_computations and Computations::schlick
\* (src/intersections.rs)
\* ------------------------------------------------------------------------
\* prepare_computations flagging the inside hit but keeping the normal
prepare_computations_unflipped(self, ray, objs, list) ==
    LET n == RefractiveIndices(self, objs, list)
        point == position(ray, self.t)
        object == Object(objs, self.object_id)
        normal0 == ShapeNormalAt(object, point)
        eyev == Neg(ray.direction)
        inside == dot(normal0, eyev) < 0
        normalv == normal0
    IN [t |-> self.t, object_id |-> self.object_id, point |-> point,
        eyev |-> eyev, normalv |-> normalv, inside |-> inside,
        over_point |-> Add(point, MulScalar(normalv, EPSILON)),
        reflectv |-> reflect(ray.direction, normalv),
        n1 |-> n.n1, n2 |-> n.n2,
        under_point |-> Sub(point, MulScalar(normalv, EPSILON))]

prepare_computations(self, ray, objs, list) ==
    LET n == RefractiveIndices(self, objs, list)
        point == position(ray, self.t)
        object == Object(objs, self.object_id)
        normal0 == ShapeNormalAt(object, point)
        eyev == Neg(ray.direction)
        inside == dot(normal0, eyev) < 0
        normalv == IF inside THEN Neg(normal0) ELSE normal0
    IN [t |-> self.t, object_id |-> self.object_id, point |-> point,
        eyev |-> eyev, normalv |-> normalv, inside |-> inside,
        over_point |-> Add(point, MulScalar(normalv, EPSILON)),
        reflectv |-> reflect(ray.direction, normalv),
        n1 |-> n.n1, n2 |-> n.n2,
        under_point |-> Sub(point, MulScalar(normalv, EPSILON))]

schlick(comps) ==
    LET cos_i == dot(comps.eyev, comps.normalv)
        n == FDiv(comps.n1, comps.n2)
        sin2_t == FMul(FPow(n, 2), ONE - FPow(cos_i, 2))
        cos == IF comps.n1 > comps.n2 THEN FSqrt(ONE - sin2_t) ELSE cos_i
        r0 == FPow(FDiv(comps.n1 - comps.n2, comps.n1 + comps.n2), 2)
    IN IF comps.n1 > comps.n2 /\ sin2_t > ONE THEN ONE
       ELSE r0 + FMul(ONE - r0, FPow(ONE - cos, 5))

\* ------------------------------------------------------------------------
\* lightning (src/materials.rs); light is Some([position, intensity])
\* ------------------------------------------------------------------------
PointLight(pos, intensity) == [position |-> pos, intensity |-> intensity]

\* Pattern::stripe_pattern(a, b)
stripe_pattern(a, b) ==
    [kind |-> "Stripe", a |-> a, b |-> b,
     transform |-> [transform |-> Identity, inverse_transform |-> None]]

\* f32::floor of a fixed-point number, as a whole number
Floor(x) == (x - (x % ONE)) \div ONE

\* StripePattern::color
StripeColor(pattern, point) ==
    IF Floor(point[1]) % 2 = 0 THEN pattern.a ELSE pattern.b

\* Pattern::pattern_at_shape followed by pattern_at
pattern_at_shape(pattern, object, world_point) ==
    LET object_point ==
            IF get_inverse_transform(object) = None THEN world_point
            ELSE MulPoint(get_inverse_transform(object).val, world_point)
        pattern_point ==
            IF pattern.transform.inverse_transform = None THEN object_point
            ELSE MulPoint(pattern.transform.inverse_transform.val, object_point)
    IN StripeColor(pattern, pattern_point)

\* lightning going on to the diffuse and specular terms in shadow as well
lightning_unshadowed(object, light, point, eyev, normalv, in_shadow) ==
    LET material == get_material(object)
        color == IF material.pattern = None THEN material.color
                 ELSE pattern_at_shape(material.pattern.val, object, point)
        effective_color == MulColor(color, light.intensity)
        lightv == normalize(Sub(light.position, point))
        ambient == MulScalar(effective_color, material.ambient)
        light_dot_normal == dot(lightv, normalv)
        reflectv == reflect(Neg(lightv), normalv)
        reflect_dot_eye == dot(reflectv, eyev)
        diffuse == IF light_dot_normal >= 0
                   THEN MulScalar(MulScalar(effective_color, material.diffuse),
                                  light_dot_normal)
                   ELSE Black
        specular == IF light_dot_normal >= 0 /\ reflect_dot_eye > 0
                    THEN MulScalar(MulScalar(light.intensity, material.specular),
                                   FPow(reflect_dot_eye, material.shininess))
                    ELSE Black
    IN Add(Add(ambient, diffuse), specular)

\* lightning (src/materials.rs)
lightning(object, light, point, eyev, normalv, in_shadow) ==
    LET material == get_material(object)
        color == IF material.pattern = None THEN material.color
                 ELSE pattern_at_shape(material.pattern.val, object, point)
        effective_color == MulColor(color, light.intensity)
        lightv == normalize(Sub(light.position, point))
        ambient == MulScalar(effective_color, material.ambient)
        light_dot_normal == dot(lightv, normalv)
        reflectv == reflect(Neg(lightv), normalv)
        reflect_dot_eye == dot(reflectv, eyev)
        diffuse == IF light_dot_normal >= 0
                   THEN MulScalar(MulScalar(effective_color, material.diffuse),
                                  light_dot_normal)
                   ELSE Black
        specular == IF light_dot_normal >= 0 /\ reflect_dot_eye > 0
                    THEN MulScalar(MulScalar(light.intensity, material.specular),
                                   FPow(reflect_dot_eye, material.shininess))
                    ELSE Black
    IN IF in_shadow THEN ambient
       ELSE Add(Add(ambient, diffuse), specular)

\* ------------------------------------------------------------------------
\* World::is_shadowed (src/worlds.rs)
\* ------------------------------------------------------------------------
\* is_shadowed taking any hit for a shadow, however far
is_shadowed_by_any_hit(objs, lt, point) ==
    IF lt = None THEN TRUE
    ELSE Hit(intersect_world(objs,
                Ray(point, normalize(Sub(lt.val.position, point))))) # None

ShadowRay(lt, point) == Ray(point, normalize(Sub(lt.val.position, point)))

is_shadowed(objs, lt, point) ==
    IF lt = None THEN TRUE
    ELSE LET v == Sub(lt.val.position, point)
             distance == magnitude(v)
             intersections == intersect_world(objs, ShadowRay(lt, point))
         IN IF Hit(intersections) = None THEN FALSE
            ELSE Hit(intersections).val.t < distance

\* the objects after is_shadowed
ShadowProbed(objs, lt, point) ==
    IF lt = None THEN objs ELSE ProbedWorld(objs, ShadowRay(lt, point))

\* ------------------------------------------------------------------------
\* State
\* ------------------------------------------------------------------------
VARIABLES
    objects,        \* World::objects
    light,          \* World::light
    xs,             \* an Intersections value under construction
    out,            \* what the last direct call of hit, prepare_computations
                    \* or is_shadowed returned
    stack,          \* the color_at activations of the running ray cast
    result,         \* the finished primary color_at activation
    calls,          \* color_at invocations of the current ray cast
    shadow_rays,    \* shadow rays cast by the current ray cast
    secondary_rays, \* reflection and refraction rays cast by it
    camera,         \* a Camera, None before Camera::new
    pattern,        \* a Pattern, None before its constructor
    image,          \* Canvas::pixels of the image being rendered
    tasks           \* the loops of render / render_par over the pixels

vars == <<objects, light, xs, out, stack, result, calls, shadow_rays,
          secondary_rays, camera, pattern, image, tasks>>

\* ------------------------------------------------------------------------
\* World::reflected_color, World::refracted_color, World::shade_hit and
\* World::color_at (src/worlds.rs), one activation record per color_at call
\* ------------------------------------------------------------------------
Activation(ray, remaining) ==
    [ray |-> ray, remaining |-> remaining, pc |-> "color_at", hit |-> None,
     comps |-> None, surface |-> Black, reflected |-> Black,
     refracted |-> Black, value |-> Black]

Top == stack[Len(stack)]
SetTop(f) == [stack EXCEPT ![Len(stack)] = f]
HitMaterial(f) == get_material(Object(objects, f.comps.val.object_id))

\* the budget handed to the color_at call of a secondary ray
SameBudget(remaining) == remaining

Budget(remaining) == remaining - 1

\* reflected_color without its test of remaining
ReflectedCastsAtZero(material, remaining) == material.reflective # 0

\* reflected_color goes on to cast a ray
ReflectedCasts(material, remaining) ==
    ~(remaining <= 0) /\ material.reflective # 0

\* sin2_t with the ratio of the indices upside down
Sin2TN2OverN1(comps) ==
    LET n_ratio == FDiv(comps.n2, comps.n1)
        cos_i == dot(comps.eyev, comps.normalv)
    IN FMul(FPow(n_ratio, 2), ONE - FPow(cos_i, 2))

\* sin2_t of refracted_color
Sin2T(comps) ==
    LET n_ratio == FDiv(comps.n1, comps.n2)
        cos_i == dot(comps.eyev, comps.normalv)
    IN FMul(FPow(n_ratio, 2), ONE - FPow(cos_i, 2))

\* refracted_color without its test of remaining
RefractedCastsAtZero(material, remaining, comps) ==
    /\ ~(material.transparency = 0)
    /\ ~(Sin2T(comps) > ONE)

\* refracted_color goes on to cast a ray
RefractedCasts(material, remaining, comps) ==
    /\ ~(material.transparency = 0 \/ remaining <= 0)
    /\ ~(Sin2T(comps) > ONE)

\* the reflection ray started below the surface
ReflectRayFromUnder(comps) == Ray(comps.under_point, comps.reflectv)

\* reflected_color's reflect_ray
ReflectRay(comps) == Ray(comps.over_point, comps.reflectv)

RefractRay(comps) ==
    LET n_ratio == FDiv(comps.n1, comps.n2)
        cos_i == dot(comps.eyev, comps.normalv)
        cos_t == FSqrt(ONE - Sin2T(comps))
        direction == Sub(MulScalar(comps.normalv, FMul(n_ratio, cos_i) - cos_t),
                         MulScalar(comps.eyev, n_ratio))
    IN Ray(comps.under_point, direction)

\* shade_hit lighting the surface with a white light when there is none
SurfaceLit(comps) ==
    IF light = None
    THEN lightning(Object(objects, comps.object_id),
                   PointLight(<<0, 0, 0>>, <<ONE, ONE, ONE>>), comps.point,
                   comps.eyev, comps.normalv, TRUE)
    ELSE lightning(Object(objects, comps.object_id), light.val, comps.point,
                   comps.eyev, comps.normalv,
                   is_shadowed(objects, light, comps.over_point))

\* shade_hit's surface term
Surface(comps) ==
    IF light = None THEN Black
    ELSE lightning(Object(objects, comps.object_id), light.val, comps.point,
                   comps.eyev, comps.normalv,
                   is_shadowed(objects, light, comps.over_point))

\* shade_hit weighting as soon as one of the two is set
BlendsEither(material) == material.reflective > 0 \/ material.transparency > 0

\* shade_hit's weighting of reflected and refracted
Blends(material) == material.reflective > 0 /\ material.transparency > 0

\* shade_hit's return value
Blend(material, comps, surface, reflected, refracted) ==
    IF Blends(material)
    THEN LET reflectance == schlick(comps)
         IN Add(Add(surface, MulScalar(reflected, reflectance)),
                MulScalar(refracted, ONE - reflectance))
    ELSE Add(Add(surface, reflected), refracted)

\* color_at answering a miss with white
MissWhite == <<ONE, ONE, ONE>>

\* color_at's value when nothing is hit
Miss == Black

\* deepest chain of activations the model follows
MaxStack == MaxRemaining + 3

\* a primary ray enters color_at
ColorAtCall(ray, remaining) ==
    /\ stack = <<>>
    /\ stack' = <<Activation(ray, remaining)>>
    /\ result' = None
    /\ out' = None
    /\ calls' = 0
    /\ shadow_rays' = 0
    /\ secondary_rays' = 0
    /\ UNCHANGED <<camera, pattern, image, tasks>>
    /\ UNCHANGED <<objects, light, xs>>

\* color_at up to shade_hit's surface term: intersect_world, hit,
\* prepare_computations, is_shadowed, lightning
ColorAt ==
    /\ stack # <<>>
    /\ Top.pc = "color_at"
    /\ LET list == intersect_world(objects, Top.ray)
           h == Hit(list)
       IN IF h = None
          THEN /\ stack' = SetTop([Top EXCEPT !.pc = "return", !.value = Miss])
               /\ objects' = ProbedWorld(objects, Top.ray)
               /\ UNCHANGED shadow_rays
          ELSE LET comps == prepare_computations(h.val, Top.ray, objects, list)
               IN /\ stack' = SetTop([Top EXCEPT !.pc = "reflected_color",
                                                 !.hit = h,
                                                 !.comps = Some(comps),
                                                 !.surface = Surface(comps)])
                  /\ objects' = ShadowProbed(ProbedWorld(objects, Top.ray),
                                             light, comps.over_point)
                  /\ shadow_rays' = IF light = None THEN shadow_rays
                                    ELSE shadow_rays + 1
    /\ calls' = calls + 1
    /\ UNCHANGED <<camera, pattern, image, tasks>>
    /\ UNCHANGED <<light, xs, out, result, secondary_rays>>

\* reflected_color up to its color_at call
ReflectedColor ==
    /\ stack # <<>>
    /\ Top.pc = "reflected_color"
    /\ IF ReflectedCasts(HitMaterial(Top), Top.remaining)
       THEN /\ Len(stack) < MaxStack
            /\ stack' = Append(SetTop([Top EXCEPT !.pc = "reflected_wait"]),
                               Activation(ReflectRay(Top.comps.val),
                                          Budget(Top.remaining)))
            /\ secondary_rays' = secondary_rays + 1
       ELSE /\ stack' = SetTop([Top EXCEPT !.pc = "refracted_color",
                                           !.reflected = Black])
            /\ UNCHANGED secondary_rays
    /\ UNCHANGED <<camera, pattern, image, tasks>>
    /\ UNCHANGED <<objects, light, xs, out, result, calls, shadow_rays>>

\* refracted_color up to its color_at call
RefractedColor ==
    /\ stack # <<>>
    /\ Top.pc = "refracted_color"
    /\ IF RefractedCasts(HitMaterial(Top), Top.remaining, Top.comps.val)
       THEN /\ Len(stack) < MaxStack
            /\ stack' = Append(SetTop([Top EXCEPT !.pc = "refracted_wait"]),
                               Activation(RefractRay(Top.comps.val),
                                          Budget(Top.remaining)))
            /\ secondary_rays' = secondary_rays + 1
       ELSE /\ stack' = SetTop([Top EXCEPT !.pc = "shade_hit",
                                           !.refracted = Black])
            /\ UNCHANGED secondary_rays
    /\ UNCHANGED <<camera, pattern, image, tasks>>
    /\ UNCHANGED <<objects, light, xs, out, result, calls, shadow_rays>>

\* the end of shade_hit: the three terms are put together
ShadeHit ==
    /\ stack # <<>>
    /\ Top.pc = "shade_hit"
    /\ stack' = SetTop([Top EXCEPT
            !.pc = "return",
            !.value = Blend(HitMaterial(Top), Top.comps.val, Top.surface,
                            Top.reflected, Top.refracted)])
    /\ UNCHANGED <<camera, pattern, image, tasks>>
    /\ UNCHANGED <<objects, light, xs, out, result, calls, shadow_rays,
                   secondary_rays>>

\* color_at returns: to reflected_color or refracted_color of the caller,
\* which scales the color, or to the caller of the primary ray
Return ==
    /\ stack # <<>>
    /\ Top.pc = "return"
    /\ IF Len(stack) = 1
       THEN /\ result' = Some(Top)
            /\ stack' = <<>>
       ELSE LET caller == stack[Len(stack) - 1]
                rest == SubSeq(stack, 1, Len(stack) - 2)
            IN /\ UNCHANGED result
               /\ stack' = rest \o
                    << IF caller.pc = "reflected_wait"
                       THEN [caller EXCEPT
                               !.pc = "refracted_color",
                               !.reflected = MulScalar(Top.value,
                                                HitMaterial(caller).reflective)]
                       ELSE [caller EXCEPT
                               !.pc = "shade_hit",
                               !.refracted = MulScalar(Top.value,
                                                HitMaterial(caller).transparency)] >>
    /\ UNCHANGED <<camera, pattern, image, tasks>>
    /\ UNCHANGED <<objects, light, xs, out, calls, shadow_rays, secondary_rays>>

\* is_shadowed called on its own
IsShadowed(point) ==
    /\ stack = <<>>
    /\ result = None
    /\ out' = [op |-> "is_shadowed", point |-> point,
               value |-> is_shadowed(objects, light, point)]
    /\ objects' = ShadowProbed(objects, light, point)
    /\ UNCHANGED <<camera, pattern, image, tasks>>
    /\ UNCHANGED <<light, xs, stack, result, calls, shadow_rays,
                   secondary_rays>>

\* intersect_world called on its own
IntersectWorld(ray) ==
    /\ stack = <<>>
    /\ result = None
    /\ out' = [op |-> "intersect_world", ray |-> ray,
               value |-> intersect_world(objects, ray)]
    /\ objects' = ProbedWorld(objects, ray)
    /\ UNCHANGED <<camera, pattern, image, tasks>>
    /\ UNCHANGED <<light, xs, stack, result, calls, shadow_rays,
                   secondary_rays>>

\* ------------------------------------------------------------------------
\* Scenes: the worlds, rays and points the model is run on
\* ------------------------------------------------------------------------
Mirror == [MaterialDefault EXCEPT !.reflective = ONE]
Glass == [MaterialDefault EXCEPT !.transparency = ONE, !.refractive_index = 1500]
GlassMirror == [MaterialDefault EXCEPT !.reflective = 500, !.transparency = 500,
                                       !.refractive_index = 1500]
Dense == [MaterialDefault EXCEPT !.transparency = 500, !.reflective = 500,
                                 !.refractive_index = 2 * ONE, !.ambient = ONE]

ShapeChoices ==
    { ShapeWith("Plane", translation(0, -ONE, 0), Mirror),
      ShapeWith("Plane", translation(0, ONE, 0), Mirror),
      ShapeNew("Sphere"),
      set_material(ShapeNew("Sphere"), Glass),
      set_material(ShapeNew("Sphere"), GlassMirror),
      ShapeWith("Sphere", scaling(2 * ONE, 2 * ONE, 2 * ONE), Dense),
      ShapeWith("Sphere", scaling(0, ONE, ONE), Mirror) }

RECURSIVE SeqsUpTo(_, _)
SeqsUpTo(S, n) ==
    IF n = 0 THEN {<<>>}
    ELSE LET shorter == SeqsUpTo(S, n - 1)
         IN shorter \cup {Append(q, e) : q \in shorter, e \in S}

\* the sequences of at most n different members of S
RECURSIVE DistinctSeqsUpTo(_, _)
DistinctSeqsUpTo(S, n) ==
    IF n = 0 THEN {<<>>}
    ELSE LET shorter == DistinctSeqsUpTo(S, n - 1)
         IN shorter \cup
            UNION {{Append(q, e) : e \in S \ {q[k] : k \in 1..Len(q)}} :
                   q \in shorter}

\* a world holds up to MaxObjects different shapes
Worlds == DistinctSeqsUpTo(ShapeChoices, MaxObjects)

Lights == {None,
           Some(PointLight(<<-10 * ONE, 10 * ONE, -10 * ONE>>, <<ONE, ONE, ONE>>))}

Rays ==
    { Ray(<<0, 0, 0>>, <<0, ONE, 0>>),
      Ray(<<0, 0, -5 * ONE>>, <<0, 0, ONE>>),
      Ray(<<0, 0, -5 * ONE>>, <<0, 0, -ONE>>),
      Ray(<<ONE, -5 * ONE, 0>>, <<0, ONE, 0>>),
      Ray(<<0, 3 * ONE, 0>>, <<0, -ONE, 0>>) }

Points ==
    { <<10 * ONE, -10 * ONE, 10 * ONE>>, <<-20 * ONE, 20 * ONE, -20 * ONE>>,
      <<-2 * ONE, 2 * ONE, -2 * ONE>>, <<0, 0, 0>>, <<0, 3 * ONE, 0>> }

\* ------------------------------------------------------------------------
\* The ray caster
\* ------------------------------------------------------------------------
Init ==
    /\ objects \in Worlds
    /\ light \in Lights
    /\ xs = <<>>
    /\ out = None
    /\ stack = <<>>
    /\ result = None
    /\ calls = 0
    /\ shadow_rays = 0
    /\ secondary_rays = 0
    /\ camera = None
    /\ pattern = None
    /\ image = <<>>
    /\ tasks = <<>>

Step == ColorAt \/ ReflectedColor \/ RefractedColor \/ ShadeHit \/ Return

Next ==
    \/ \E ray \in Rays, remaining \in 0..MaxRemaining : ColorAtCall(ray, remaining)
    \/ ColorAt
    \/ ReflectedColor
    \/ RefractedColor
    \/ ShadeHit
    \/ Return
    \/ \E point \in Points : IsShadowed(point)
    \/ \E ray \in Rays : IntersectWorld(ray)

Spec == Init /\ [][Next]_vars

\* ------------------------------------------------------------------------
\* The ray caster over worlds that hold a Test shape
\* ------------------------------------------------------------------------
ProbeWorlds ==
    { << ShapeNew("Test") >>,
      << ShapeWith("Test", scaling(2 * ONE, 2 * ONE, 2 * ONE), MaterialDefault),
         ShapeWith("Plane", translation(0, -ONE, 0), Mirror) >>,
      << set_material(ShapeNew("Sphere"), GlassMirror),
         ShapeWith("Test", translation(5 * ONE, 0, 0), MaterialDefault) >> }

ProbeInit ==
    /\ objects \in ProbeWorlds
    /\ light \in Lights
    /\ xs = <<>>
    /\ out = None
    /\ stack = <<>>
    /\ result = None
    /\ calls = 0
    /\ shadow_rays = 0
    /\ secondary_rays = 0
    /\ camera = None
    /\ pattern = None
    /\ image = <<>>
    /\ tasks = <<>>

ProbeSpec == ProbeInit /\ [][Next]_vars

\* ------------------------------------------------------------------------
\* The ray caster on rays that start inside a sphere, as in the tests of
\* refracted_color
\* ------------------------------------------------------------------------
RefractWorlds ==
    { << ShapeNew("Sphere") >>,
      << set_material(ShapeNew("Sphere"), Glass) >>,
      << set_material(ShapeNew("Sphere"), GlassMirror),
         ShapeWith("Plane", translation(0, -ONE, 0), Mirror) >>,
      << ShapeWith("Sphere", scaling(2 * ONE, 2 * ONE, 2 * ONE), Dense),
         set_material(ShapeNew("Sphere"), Glass) >> }

InnerRays ==
    { Ray(<<0, 0, 707>>, <<0, ONE, 0>>),
      Ray(<<0, 0, 100>>, <<0, ONE, 0>>),
      Ray(<<0, 0, -5 * ONE>>, <<0, 0, ONE>>) }

RefractInit ==
    /\ objects \in RefractWorlds
    /\ light \in Lights
    /\ xs = <<>>
    /\ out = None
    /\ stack = <<>>
    /\ result = None
    /\ calls = 0
    /\ shadow_rays = 0
    /\ secondary_rays = 0
    /\ camera = None
    /\ pattern = None
    /\ image = <<>>
    /\ tasks = <<>>

RefractNext ==
    \/ \E ray \in InnerRays, remaining \in 0..MaxRemaining :
            ColorAtCall(ray, remaining)
    \/ ColorAt
    \/ ReflectedColor
    \/ RefractedColor
    \/ ShadeHit
    \/ Return

RefractSpec == RefractInit /\ [][RefractNext]_vars

\* ------------------------------------------------------------------------
\* The Intersections ledger on its own: new, extend, hit and
\* prepare_computations applied to hand-built lists, over two of the
\* overlapping glass spheres of finding_n1_and_n2_at_various_intersections.
\* hit and prepare_computations leave the list as it is, so the list is
\* built first and queried afterwards.
\* ------------------------------------------------------------------------
GlassIndex(refractive_index) ==
    [MaterialDefault EXCEPT !.refractive_index = refractive_index]

LedgerWorld ==
    << ShapeWith("Sphere", scaling(2 * ONE, 2 * ONE, 2 * ONE), GlassIndex(1500)),
       ShapeWith("Sphere", translation(0, 0, -250), GlassIndex(2 * ONE)) >>

LedgerRay == Ray(<<0, 0, -4 * ONE>>, <<0, 0, ONE>>)

TValues == {-ONE, 0, ONE, 2 * ONE}

LedgerItems ==
    {Intersection(t, id) : t \in TValues, id \in 0..(Len(LedgerWorld) - 1)}

Vecs == SeqsUpTo(LedgerItems, MaxLen)

LedgerInit ==
    /\ objects = LedgerWorld
    /\ light = None
    /\ xs = <<>>
    /\ out = None
    /\ stack = <<>>
    /\ result = None
    /\ calls = 0
    /\ shadow_rays = 0
    /\ secondary_rays = 0
    /\ camera = None
    /\ pattern = None
    /\ image = <<>>
    /\ tasks = <<>>

\* Intersections::new(v)
New(v) ==
    /\ out = None
    /\ xs' = IntersectionsNew(v)
    /\ out' = [op |-> "new", arg |-> v]
    /\ UNCHANGED <<camera, pattern, image, tasks>>
    /\ UNCHANGED <<objects, light, stack, result, calls, shadow_rays,
                   secondary_rays>>

\* xs.extend(Intersections::new(v))
Extend(v) ==
    /\ out # None /\ out.op \in {"new", "extend"}
    /\ Len(xs) + Len(v) <= MaxLedger
    /\ xs' = IntersectionsExtend(xs, IntersectionsNew(v))
    /\ out' = [op |-> "extend", before |-> xs, other |-> IntersectionsNew(v)]
    /\ UNCHANGED <<camera, pattern, image, tasks>>
    /\ UNCHANGED <<objects, light, stack, result, calls, shadow_rays,
                   secondary_rays>>

\* xs.hit()
HitCall ==
    /\ out # None /\ out.op \in {"new", "extend"}
    /\ out' = [op |-> "hit", value |-> Hit(xs)]
    /\ UNCHANGED <<camera, pattern, image, tasks>>
    /\ UNCHANGED <<objects, light, xs, stack, result, calls, shadow_rays,
                   secondary_rays>>

\* xs[k - 1].prepare_computations(&ray, &world, &xs)
PrepareCall(k) ==
    /\ out # None /\ out.op \in {"new", "extend"}
    /\ out' = [op |-> "prepare_computations", self |-> xs[k], k |-> k,
               comps |-> prepare_computations(xs[k], LedgerRay, objects, xs)]
    /\ UNCHANGED <<camera, pattern, image, tasks>>
    /\ UNCHANGED <<objects, light, xs, stack, result, calls, shadow_rays,
                   secondary_rays>>

LedgerNext ==
    \/ \E v \in Vecs : New(v)
    \/ \E v \in Vecs : Extend(v)
    \/ HitCall
    \/ \E k \in 1..Len(xs) : PrepareCall(k)
    \/ \E ray \in Rays \cup {LedgerRay} : out = None /\ IntersectWorld(ray)

LedgerSpec == LedgerInit /\ [][LedgerNext]_vars

\* ------------------------------------------------------------------------
\* Camera (src/camera.rs) and Pattern (src/patterns.rs)
\* ------------------------------------------------------------------------
PI == 3141

\* f32::tan at the half angles of the fields of view in use: PI/4 and PI/6
Tan(a) == CASE a = 785 -> ONE
            [] a = 523 -> 577

\* Camera::new for Camera<HSIZE, VSIZE>
CameraNew(hsize, vsize, field_of_view) ==
    LET half_view == Tan(FDiv(field_of_view, 2 * ONE))
        aspect == FDiv(hsize * ONE, vsize * ONE)
        half_width == IF aspect >= ONE THEN half_view
                      ELSE FMul(half_view, aspect)
        half_height == IF aspect >= ONE THEN FDiv(half_view, aspect)
                       ELSE half_view
    IN [hsize |-> hsize, vsize |-> vsize, field_of_view |-> field_of_view,
        transform |-> Identity, inverse_transform |-> None,
        pixel_size |-> FDiv(FMul(half_width, 2 * ONE), hsize * ONE),
        half_width |-> half_width, half_height |-> half_height]

\* Camera::set_transform
camera_set_transform(c, transform) ==
    [c EXCEPT !.transform = transform, !.inverse_transform = inverse(transform)]

\* Camera::ray_for_pixel
ray_for_pixel(c, px, py) ==
    LET xoffset == FMul(px * ONE + 500, c.pixel_size)
        yoffset == FMul(py * ONE + 500, c.pixel_size)
        world_x == c.half_width - xoffset
        world_y == c.half_height - yoffset
        pixel0 == <<world_x, world_y, -ONE>>
        pixel == IF c.inverse_transform = None THEN pixel0
                 ELSE MulPoint(c.inverse_transform.val, pixel0)
        origin == IF c.inverse_transform = None THEN <<0, 0, 0>>
                  ELSE MulPoint(c.inverse_transform.val, <<0, 0, 0>>)
    IN Ray(origin, normalize(Sub(pixel, origin)))

\* TransformData::new
TransformDataNew(transform, inverse_transform) ==
    [transform |-> transform, inverse_transform |-> inverse_transform]

\* Pattern::test_pattern(), stripe_pattern(..), ...: every constructor
PatternNew == [transform |-> TransformDataNew(Identity, None)]

\* HasTransform for Pattern
pattern_set_transform(p, transform) ==
    [p EXCEPT !.transform = set_transform(p.transform, transform)]

\* ------------------------------------------------------------------------
\* Transforms on their own: a sphere, a plane, a pattern and a camera, as
\* their constructors make them, under set_transform, intersect and
\* normal_at
\* ------------------------------------------------------------------------
Matrices ==
    { Identity, translation(0, ONE, 0), scaling(2 * ONE, 2 * ONE, 2 * ONE),
      scaling(0, ONE, ONE) }

\* points handed to normal_at: none is the image of the object-space origin
\* under a matrix of Matrices, where the normal has no direction
SurfacePoints ==
    { <<ONE, 0, 0>>, <<0, 2 * ONE, 0>>, <<0, 0, -ONE>>, <<707, 1707, 0>> }

TransformInit ==
    /\ objects = << ShapeNew("Sphere"), ShapeNew("Plane") >>
    /\ light = None
    /\ xs = <<>>
    /\ out = None
    /\ stack = <<>>
    /\ result = None
    /\ calls = 0
    /\ shadow_rays = 0
    /\ secondary_rays = 0
    /\ camera = CameraNew(1, 1, FDiv(PI, 2 * ONE))
    /\ pattern = PatternNew
    /\ image = <<>>
    /\ tasks = <<>>

\* world.objects[object_id].set_transform(transform)
SetTransform(object_id, transform) ==
    /\ objects' = [objects EXCEPT
                      ![object_id + 1] = set_transform(@, transform)]
    /\ out' = [op |-> "set_transform", target |-> "shape",
               object_id |-> object_id, matrix |-> transform]
    /\ UNCHANGED <<light, xs, stack, result, calls, shadow_rays,
                   secondary_rays, camera, pattern, image, tasks>>

\* pattern.set_transform(transform)
PatternSetTransform(transform) ==
    /\ pattern' = pattern_set_transform(pattern, transform)
    /\ out' = [op |-> "set_transform", target |-> "pattern",
               object_id |-> 0, matrix |-> transform]
    /\ UNCHANGED <<objects, light, xs, stack, result, calls, shadow_rays,
                   secondary_rays, camera, image, tasks>>

\* camera.set_transform(transform)
CameraSetTransform(transform) ==
    /\ camera' = camera_set_transform(camera, transform)
    /\ out' = [op |-> "set_transform", target |-> "camera",
               object_id |-> 0, matrix |-> transform]
    /\ UNCHANGED <<objects, light, xs, stack, result, calls, shadow_rays,
                   secondary_rays, pattern, image, tasks>>

\* world.objects[object_id].intersect(&ray, object_id)
Intersect(object_id, ray) ==
    /\ out' = [op |-> "intersect", object_id |-> object_id, ray |-> ray,
               value |-> ShapeIntersect(Object(objects, object_id), ray,
                                        object_id)]
    /\ objects' = [objects EXCEPT ![object_id + 1] = Probed(@, ray)]
    /\ UNCHANGED <<light, xs, stack, result, calls, shadow_rays,
                   secondary_rays, camera, pattern, image, tasks>>

\* world.objects[object_id].normal_at(&point)
NormalAt(object_id, point) ==
    /\ out' = [op |-> "normal_at", object_id |-> object_id, point |-> point,
               value |-> ShapeNormalAt(Object(objects, object_id), point)]
    /\ UNCHANGED <<objects, light, xs, stack, result, calls, shadow_rays,
                   secondary_rays, camera, pattern, image, tasks>>

TransformNext ==
    \/ \E id \in 0..(Len(objects) - 1), m \in Matrices : SetTransform(id, m)
    \/ \E m \in Matrices : PatternSetTransform(m)
    \/ \E m \in Matrices : CameraSetTransform(m)
    \/ \E id \in 0..(Len(objects) - 1), ray \in Rays : Intersect(id, ray)
    \/ \E id \in 0..(Len(objects) - 1), point \in SurfacePoints :
          NormalAt(id, point)

TransformSpec == TransformInit /\ [][TransformNext]_vars

\* ------------------------------------------------------------------------
\* HasTransform and HasMaterial for Shape: one shape of either variant
\* under set_transform, set_material, the getters and intersect
\* ------------------------------------------------------------------------
ShapeKinds == {"Test", "Sphere", "Plane"}

ShapeMatrices == { Identity, translation(0, ONE, 0), scaling(0, ONE, ONE) }

ShapeMaterials ==
    { MaterialDefault, Glass, [MaterialDefault EXCEPT !.ambient = ONE] }

ShapeInit ==
    /\ objects \in {<<ShapeNew(kind)>> : kind \in ShapeKinds}
    /\ light = None
    /\ xs = <<>>
    /\ out = None
    /\ stack = <<>>
    /\ result = None
    /\ calls = 0
    /\ shadow_rays = 0
    /\ secondary_rays = 0
    /\ camera = None
    /\ pattern = None
    /\ image = <<>>
    /\ tasks = <<>>

\* world.objects[object_id].set_material(material)
SetMaterial(object_id, material) ==
    /\ objects' = [objects EXCEPT
                      ![object_id + 1] = set_material(@, material)]
    /\ out' = [op |-> "set_material", object_id |-> object_id,
               material |-> material]
    /\ UNCHANGED <<light, xs, stack, result, calls, shadow_rays,
                   secondary_rays, camera, pattern, image, tasks>>

\* world.objects[object_id].get_material()
GetMaterial(object_id) ==
    /\ out' = [op |-> "get_material", object_id |-> object_id,
               value |-> get_material(Object(objects, object_id))]
    /\ UNCHANGED <<objects, light, xs, stack, result, calls, shadow_rays,
                   secondary_rays, camera, pattern, image, tasks>>

\* world.objects[object_id].get_transform()
GetTransform(object_id) ==
    /\ out' = [op |-> "get_transform", object_id |-> object_id,
               value |-> get_transform(Object(objects, object_id))]
    /\ UNCHANGED <<objects, light, xs, stack, result, calls, shadow_rays,
                   secondary_rays, camera, pattern, image, tasks>>

ShapeNext ==
    \/ \E id \in 0..(Len(objects) - 1), m \in ShapeMatrices : SetTransform(id, m)
    \/ \E id \in 0..(Len(objects) - 1), material \in ShapeMaterials :
          SetMaterial(id, material)
    \/ \E id \in 0..(Len(objects) - 1) : GetMaterial(id)
    \/ \E id \in 0..(Len(objects) - 1) : GetTransform(id)
    \/ \E id \in 0..(Len(objects) - 1), ray \in Rays : Intersect(id, ray)

ShapeSpec == ShapeInit /\ [][ShapeNext]_vars

\* ------------------------------------------------------------------------
\* World::color_at as the function render calls (src/worlds.rs). A color
\* that a call returns is bound as the member of a one-element set, so that
\* it is computed once however often it is used.
\* ------------------------------------------------------------------------
RECURSIVE color_at(_, _)
color_at(ray, remaining) ==
    LET list == intersect_world(objects, ray)
        h == Hit(list)
    IN IF h = None THEN Miss
       ELSE LET comps == prepare_computations(h.val, ray, objects, list)
                material == get_material(Object(objects, comps.object_id))
                reflected ==
                    IF ReflectedCasts(material, remaining)
                    THEN {MulScalar(color, material.reflective) :
                            color \in {color_at(ReflectRay(comps),
                                                Budget(remaining))}}
                    ELSE {Black}
                refracted ==
                    IF RefractedCasts(material, remaining, comps)
                    THEN {MulScalar(color, material.transparency) :
                            color \in {color_at(RefractRay(comps),
                                                Budget(remaining))}}
                    ELSE {Black}
            IN CHOOSE value \in
                    {Blend(material, comps, Surface(comps), rl, rr) :
                        rl \in reflected, rr \in refracted} : TRUE

\* the depth render hands to color_at
default_depth == 5

\* ------------------------------------------------------------------------
\* Pixel (src/colors.rs) and Canvas (src/canvas.rs)
\* ------------------------------------------------------------------------
PixelBlack == <<0, 0, 0>>

\* Pixel::clamp; `as u8` saturates
PixelClamp(min, max, color) ==
    LET byte(c) ==
            LET rounded == IF c <= 0 THEN 0 ELSE (c * max + ONE \div 2) \div ONE
                as_u8 == IF rounded > 255 THEN 255 ELSE rounded
                raised == IF as_u8 < min THEN min ELSE as_u8
            IN IF raised > max THEN max ELSE raised
    IN <<byte(color[1]), byte(color[2]), byte(color[3])>>

\* HeapMatrix::new for HeapMatrix<_, ROWS, COLS>; next to its pixel each
\* cell keeps the list of the writes it took: pixel row y, column x and the
\* worker that wrote
HeapMatrixNew(rows, cols, value) ==
    [rows |-> rows, cols |-> cols,
     data |-> [k \in 1..(rows * cols) |-> [pixel |-> value, from |-> <<>>]]]

\* Canvas::new for Canvas<ROWS, COLS>
CanvasNew(rows, cols) == HeapMatrixNew(rows, cols, PixelBlack)

\* data[index] = value, or None where the index is out of bounds and the
\* assignment panics
Store(pixels, index, value, mark) ==
    IF index >= Len(pixels.data) THEN None
    ELSE Some([pixels EXCEPT !.data[index + 1] =
                    [pixel |-> value, from |-> Append(@.from, mark)]])

\* HeapMatrix::set
HeapMatrixSet(pixels, value, row, col, mark) ==
    Store(pixels, row * pixels.cols + col, value, mark)

\* Canvas::write_pixel
write_pixel(canvas, color, row, col, mark) ==
    HeapMatrixSet(canvas, PixelClamp(0, 255, color), row, col, mark)

\* par_rows_mut: the buffer cut into its rows, each a slice of cols cells
par_rows_mut(pixels) ==
    [r \in 1..pixels.rows |-> [start |-> (r - 1) * pixels.cols,
                               len |-> pixels.cols]]

\* row[x] = value without the bounds check of the slice
SliceStoreUnchecked(pixels, row, x, value, mark) ==
    Store(pixels, row.start + x, value, mark)

\* row[x] = value on a slice: an index past the slice's end panics
SliceStore(pixels, row, x, value, mark) ==
    IF x >= row.len THEN None
    ELSE Store(pixels, row.start + x, value, mark)

\* ------------------------------------------------------------------------
\* Camera::render and Camera::render_par (src/camera.rs)
\* ------------------------------------------------------------------------
\* camera.render(world): the image is made and the two loops start at
\* y = 0, x = 0
Render ==
    /\ out = None
    /\ tasks = <<>>
    /\ image' = CanvasNew(camera.hsize, camera.vsize)
    /\ tasks' = <<[y |-> 0, x |-> 0, pc |-> "color_at", color |-> Black]>>
    /\ out' = [op |-> "render", panicked |-> FALSE, sequential |-> None]
    /\ UNCHANGED <<objects, light, xs, stack, result, calls, shadow_rays,
                   secondary_rays, camera, pattern>>

\* render has returned its image or has panicked
RenderEnded ==
    /\ out # None
    /\ out.op = "render"
    /\ out.panicked \/ tasks[1].pc = "done"

\* camera.render_par(world), on its own or after render on the same world,
\* whose outcome is kept: the image is made and every row of
\* par_rows_mut().enumerate() becomes a piece of work
RenderPar ==
    /\ \/ out = None /\ tasks = <<>>
       \/ RenderEnded
    /\ image' = CanvasNew(camera.hsize, camera.vsize)
    /\ tasks' = [r \in 1..camera.hsize |->
                    [y |-> r - 1, x |-> 0, pc |-> "color_at", color |-> Black]]
    /\ out' = [op |-> "render_par", panicked |-> FALSE,
               sequential |->
                   IF out = None THEN None
                   ELSE Some([panicked |-> out.panicked,
                              pixels |-> [k \in 1..Len(image.data) |->
                                             image.data[k].pixel]])]
    /\ UNCHANGED <<objects, light, xs, stack, result, calls, shadow_rays,
                   secondary_rays, camera, pattern>>

\* a loop builds the ray of its next pixel and gets its color
PixelColor(w) ==
    /\ w \in 1..Len(tasks)
    /\ tasks[w].pc = "color_at"
    /\ ~out.panicked
    /\ LET ray == ray_for_pixel(camera, tasks[w].x, tasks[w].y)
       IN \E color \in {color_at(ray, default_depth)} :
            tasks' = [tasks EXCEPT ![w].color = color, ![w].pc = "write"]
    /\ UNCHANGED <<objects, light, xs, out, stack, result, calls, shadow_rays,
                   secondary_rays, camera, pattern, image>>

\* render writes the pixel with write_pixel(color, y, x) and goes on to the
\* next x, or to the next y
WritePixel ==
    /\ out # None
    /\ out.op = "render"
    /\ ~out.panicked
    /\ tasks[1].pc = "write"
    /\ \E t \in {tasks[1]} :
       \E written \in {write_pixel(image, t.color, t.y, t.x,
                                    [y |-> t.y, x |-> t.x, worker |-> 0])} :
          IF written = None
          THEN /\ tasks' = [tasks EXCEPT ![1].pc = "panicked"]
               /\ out' = [out EXCEPT !.panicked = TRUE]
               /\ UNCHANGED image
          ELSE /\ image' = written.val
               /\ tasks' = [tasks EXCEPT ![1] =
                    IF t.x + 1 < camera.hsize
                    THEN [t EXCEPT !.x = t.x + 1, !.pc = "color_at"]
                    ELSE IF t.y + 1 < camera.vsize
                    THEN [t EXCEPT !.x = 0, !.y = t.y + 1, !.pc = "color_at"]
                    ELSE [t EXCEPT !.pc = "done"]]
               /\ UNCHANGED out
    /\ UNCHANGED <<objects, light, xs, stack, result, calls, shadow_rays,
                   secondary_rays, camera, pattern>>

\* the worker of row w writes row[x] and goes on to x + 1
RowWrite(w) ==
    /\ w \in 1..Len(tasks)
    /\ out.op = "render_par"
    /\ tasks[w].pc = "write"
    /\ ~out.panicked
    /\ \E t \in {tasks[w]} :
       \E written \in {SliceStore(image, par_rows_mut(image)[w], t.x,
                                   PixelClamp(0, 255, t.color),
                                   [y |-> t.y, x |-> t.x, worker |-> w])} :
          IF written = None
          THEN /\ tasks' = [tasks EXCEPT ![w].pc = "panicked"]
               /\ out' = [out EXCEPT !.panicked = TRUE]
               /\ UNCHANGED image
          ELSE /\ image' = written.val
               /\ tasks' = [tasks EXCEPT
                               ![w].x = t.x + 1,
                               ![w].pc = IF t.x + 1 < camera.hsize
                                         THEN "color_at" ELSE "done"]
               /\ UNCHANGED out
    /\ UNCHANGED <<objects, light, xs, stack, result, calls, shadow_rays,
                   secondary_rays, camera, pattern>>

\* a sphere in front of the camera, to one side; a glass sphere with a
\* mirror sphere behind it
RenderWorlds ==
    { << ShapeWith("Sphere", translation(ONE, 0, -1500), MaterialDefault) >>,
      << ShapeWith("Sphere", translation(0, ONE, -1500), Glass),
         ShapeWith("Sphere", translation(0, 0, -4 * ONE), Mirror) >> }

RenderInit ==
    /\ objects \in RenderWorlds
    /\ light \in Lights
    /\ \E hsize \in 1..MaxSize, vsize \in 1..MaxSize :
            camera = CameraNew(hsize, vsize, FDiv(PI, 2 * ONE))
    /\ xs = <<>>
    /\ out = None
    /\ stack = <<>>
    /\ result = None
    /\ calls = 0
    /\ shadow_rays = 0
    /\ secondary_rays = 0
    /\ pattern = None
    /\ image = <<>>
    /\ tasks = <<>>

RenderNext ==
    \/ Render
    \/ RenderPar
    \/ \E w \in 1..MaxSize : PixelColor(w)
    \/ WritePixel
    \/ \E w \in 1..MaxSize : RowWrite(w)

RenderSpec == RenderInit /\ [][RenderNext]_vars

\* ------------------------------------------------------------------------
\* Functions on their own: Plane::local_intersect and the unit sphere's
\* intersect applied to rays in object space, lightning applied to a
\* surface point
\* ------------------------------------------------------------------------
LocalOrigins ==
    { <<0, 0, -5 * ONE>>, <<0, ONE, -5 * ONE>>, <<0, 2 * ONE, -5 * ONE>>,
      <<0, 0, 0>>, <<0, 0, 5 * ONE>>, <<0, 10 * ONE, 0>>, <<0, ONE, 0>>,
      <<0, -ONE, 0>>, <<ONE, -2 * ONE, 0>>, <<2 * ONE, 500, 0>> }

LocalDirections ==
    { <<0, 0, ONE>>, <<0, 0, 2 * ONE>>, <<0, -ONE, 0>>, <<0, ONE, 0>>,
      <<ONE, 0, 0>>, <<0, 1, ONE>>, <<0, -2 * ONE, ONE>> }

LocalRays == {Ray(origin, direction) :
                origin \in LocalOrigins, direction \in LocalDirections}

\* materials of the lightning tests: the default one, a coloured dull one,
\* and the striped one of lighting_with_a_pattern_applied
LitMaterials ==
    { MaterialDefault,
      [MaterialDefault EXCEPT !.color = <<ONE, 500, 200>>, !.ambient = 300,
                              !.shininess = 10],
      set_pattern([MaterialDefault EXCEPT !.ambient = ONE, !.diffuse = 0,
                                          !.specular = 0],
                  stripe_pattern(<<ONE, ONE, ONE>>, <<0, 0, 0>>)) }

LitObjects ==
    {set_material(ShapeNew("Sphere"), material) : material \in LitMaterials}
    \cup {set_material(set_transform(ShapeNew("Sphere"),
                                     scaling(2 * ONE, 2 * ONE, 2 * ONE)),
                       set_pattern(MaterialDefault,
                                   stripe_pattern(<<ONE, 0, 0>>, <<0, 0, ONE>>)))}

LitLights ==
    { PointLight(<<0, 0, -10 * ONE>>, <<ONE, ONE, ONE>>),
      PointLight(<<0, 10 * ONE, -10 * ONE>>, <<ONE, 500, 500>>) }

LitPoints == { <<0, 0, 0>>, <<900, 0, 0>>, <<1100, 0, 0>>, <<-2500, 0, 0>> }

LitEyes == { <<0, 0, -ONE>>, <<0, 707, -707>>, <<0, -707, -707>> }

LitNormals == { <<0, 0, -ONE>>, <<0, ONE, 0>> }

\* the calls drawn: a function and its arguments
LocalCalls ==
    {[op |-> "call", fn |-> "plane", ray |-> ray, object_id |-> object_id] :
        ray \in LocalRays, object_id \in 0..1}
    \cup {[op |-> "call", fn |-> "sphere", ray |-> ray,
           object_id |-> object_id] : ray \in LocalRays, object_id \in 0..1}
    \cup {[op |-> "call", fn |-> "lightning", object |-> object, light |-> lt,
           point |-> point, eyev |-> eyev, normalv |-> normalv,
           in_shadow |-> in_shadow] :
            object \in LitObjects, lt \in LitLights, point \in LitPoints,
            eyev \in LitEyes, normalv \in LitNormals, in_shadow \in BOOLEAN}

LocalInit ==
    /\ objects = <<>>
    /\ light = None
    /\ xs = <<>>
    /\ out \in LocalCalls
    /\ stack = <<>>
    /\ result = None
    /\ calls = 0
    /\ shadow_rays = 0
    /\ secondary_rays = 0
    /\ camera = None
    /\ pattern = None
    /\ image = <<>>
    /\ tasks = <<>>

\* Plane::default().local_intersect(&ray, object_id)
PlaneIntersects ==
    /\ out.op = "call"
    /\ out.fn = "plane"
    /\ out' = [op |-> "plane", ray |-> out.ray, object_id |-> out.object_id,
               value |-> PlaneLocalIntersect(out.ray, out.object_id)]
    /\ UNCHANGED <<objects, light, xs, stack, result, calls, shadow_rays,
                   secondary_rays, camera, pattern, image, tasks>>

\* the unit sphere's intersect(&ray)
SphereIntersects ==
    /\ out.op = "call"
    /\ out.fn = "sphere"
    /\ out' = [op |-> "sphere", ray |-> out.ray, object_id |-> out.object_id,
               value |-> SphereLocalIntersect(out.ray, out.object_id)]
    /\ UNCHANGED <<objects, light, xs, stack, result, calls, shadow_rays,
                   secondary_rays, camera, pattern, image, tasks>>

\* lightning(&object, light, point, eyev, normalv, in_shadow)
Lightning ==
    /\ out.op = "call"
    /\ out.fn = "lightning"
    /\ out' = [op |-> "lightning", object |-> out.object, light |-> out.light,
               point |-> out.point, eyev |-> out.eyev, normalv |-> out.normalv,
               in_shadow |-> out.in_shadow,
               value |-> lightning(out.object, out.light, out.point, out.eyev,
                                   out.normalv, out.in_shadow)]
    /\ UNCHANGED <<objects, light, xs, stack, result, calls, shadow_rays,
                   secondary_rays, camera, pattern, image, tasks>>

LocalNext ==
    \/ PlaneIntersects
    \/ SphereIntersects
    \/ Lightning

LocalSpec == LocalInit /\ [][LocalNext]_vars

\* ------------------------------------------------------------------------
\* Properties of Intersections::hit
\* ------------------------------------------------------------------------
Members(list) == {list[k] : k \in 1..Len(list)}
HitReturned == out # None /\ out.op = "hit"

\* C1 as stated: whenever some member has t >= 0, hit returns a member whose
\* t is the least of the t values that are >= 0.
C1_AsStated ==
    HitReturned /\ (\E i \in Members(xs) : i.t >= 0) =>
        /\ out.value # None
        /\ out.value.val \in Members(xs)
        /\ \A i \in Members(xs) : i.t >= 0 => out.value.val.t <= i.t

\* C1 amended: whenever some member has t > 0, hit returns a member whose t
\* is the least of the t values that are > 0 (a member with t = 0 is skipped).
C1_LeastPositive ==
    HitReturned /\ (\E i \in Members(xs) : i.t > 0) =>
        /\ out.value # None
        /\ out.value.val \in Members(xs)
        /\ out.value.val.t > 0
        /\ \A i \in Members(xs) : i.t > 0 => out.value.val.t <= i.t

C1_Witness ==
    /\ HitReturned
    /\ \E i \in Members(xs) : i.t = 0
    /\ \E i \in Members(xs) : i.t < 0
    /\ Cardinality({i.t : i \in {j \in Members(xs) : j.t > 0}}) >= 2
    /\ out.value # None

\* C2: hit never returns an intersection with t <= 0, and returns None when
\* the list is empty or every member has negative t.
C2_NeverBehind ==
    HitReturned =>
        /\ out.value # None => out.value.val.t > 0
        /\ (\A i \in Members(xs) : i.t < 0) => out.value = None

C2_Witness ==
    /\ HitReturned
    /\ xs # <<>>
    /\ \A i \in Members(xs) : i.t < 0
    /\ out.value = None

C2_WitnessZero ==
    /\ HitReturned
    /\ \E i \in Members(xs) : i.t = 0
    /\ out.value # None

\* ------------------------------------------------------------------------
\* Properties of the n1 / n2 computation of prepare_computations
\* ------------------------------------------------------------------------
PrepareReturned == out # None /\ out.op = "prepare_computations"

\* the containment stack after replaying the first p entries of list
RECURSIVE ContainersAfter(_, _)
ContainersAfter(list, p) ==
    IF p = 0 THEN <<>>
    ELSE LET before == ContainersAfter(list, p - 1)
             id == list[p].object_id
         IN IF \E k \in 1..Len(before) : before[k] = id
            THEN SelectSeq(before, LAMBDA x : x # id)
            ELSE Append(before, id)

\* refractive index of the object on top of a containment stack, 1.0 if empty
TopIndex(containers) ==
    IF containers = <<>> THEN ONE
    ELSE Object(objects, containers[Len(containers)]).material.refractive_index

\* C5 as stated: n1 is the index on top of the containment stack just before
\* the hit toggles its object and n2 the index on top just after, 1.0 for an
\* empty stack, the stack being built by replaying the list in order.
C5_AsStated ==
    PrepareReturned =>
        \E p \in 1..Len(xs) :
            /\ xs[p] = out.self
            /\ out.comps.n1 = TopIndex(ContainersAfter(xs, p - 1))
            /\ out.comps.n2 = TopIndex(ContainersAfter(xs, p))

\* C6 as stated: the intersections after the current hit in the list have no
\* effect on n1 and n2.
C6_AsStated ==
    PrepareReturned =>
        LET upto == RefractiveIndices(out.self, objects, SubSeq(xs, 1, out.k))
        IN out.comps.n1 = upto.n1 /\ out.comps.n2 = upto.n2

IntersectWorldReturned == out # None /\ out.op = "intersect_world"

\* ------------------------------------------------------------------------
\* Properties of the order of an Intersections list
\* ------------------------------------------------------------------------
Ascending(list) == \A k \in 1..(Len(list) - 1) : list[k].t <= list[k + 1].t

\* the members of list with a given t, in the order they have in list
WithT(list, t) == SelectSeq(list, LAMBDA x : x.t = t)

\* list holds the members of input, those of equal t in input's order
KeepsTies(input, list) ==
    /\ Len(list) = Len(input)
    /\ \A x \in Members(input) \cup Members(list) :
            WithT(list, x.t) = WithT(input, x.t)

\* C12: after Intersections::new and after every Intersections::extend the
\* list is in ascending order of t and intersections of equal t keep the
\* order they were given in; the list intersect_world returns is ascending.
C12_Sorted ==
    /\ (out # None /\ out.op = "new") =>
            Ascending(xs) /\ KeepsTies(out.arg, xs)
    /\ (out # None /\ out.op = "extend") =>
            Ascending(xs) /\ KeepsTies(out.before \o out.other, xs)
    /\ IntersectWorldReturned => Ascending(out.value)

C12_Witness ==
    /\ out # None /\ out.op = "extend"
    /\ out.before # <<>>
    /\ out.other # <<>>
    /\ out.other[1].t < out.before[Len(out.before)].t
    /\ \E a \in Members(out.before), b \in Members(out.other) :
            a.t = b.t /\ a.object_id # b.object_id
    /\ xs # out.before \o out.other

C12_WitnessWorld ==
    /\ IntersectWorldReturned
    /\ Len(out.value) >= 4
    /\ \E k \in 1..(Len(out.value) - 1) :
            out.value[k].object_id > out.value[k + 1].object_id

\* ------------------------------------------------------------------------
\* how often x occurs in list
Count(list, x) == Cardinality({k \in 1..Len(list) : list[k] = x})

\* what the object with index id answers to intersect(out.ray, id)
Produced(id) == ShapeIntersect(Object(objects, id), out.ray, id)

\* occurrences of x in, and lengths of, the answers of objects 0..id
RECURSIVE ProducedCount(_, _)
ProducedCount(id, x) ==
    IF id < 0 THEN 0 ELSE Count(Produced(id), x) + ProducedCount(id - 1, x)

RECURSIVE ProducedLen(_)
ProducedLen(id) ==
    IF id < 0 THEN 0 ELSE Len(Produced(id)) + ProducedLen(id - 1)

\* C11: intersect_world(ray) returns exactly the intersections that
\* intersect(ray, index) produces on the objects of the world, each as often
\* as it is produced, so that the count is the sum of the per-object counts;
\* each carries the index of an object of the world, and its t is one of the
\* t values that object produces.
C11_Concatenation ==
    IntersectWorldReturned =>
        LET last == Len(objects) - 1
        IN /\ Len(out.value) = ProducedLen(last)
           /\ \A x \in Members(out.value) \cup
                       UNION {Members(Produced(id)) : id \in 0..last} :
                    Count(out.value, x) = ProducedCount(last, x)
           /\ \A x \in Members(out.value) :
                    /\ x.object_id \in 0..last
                    /\ x.t \in {j.t : j \in Members(
                            ShapeIntersect(Object(objects, x.object_id),
                                           out.ray, 0))}

C11_Witness ==
    /\ IntersectWorldReturned
    /\ Len(objects) >= 2
    /\ \A id \in 0..(Len(objects) - 1) : Produced(id) # <<>>
    /\ Cardinality({x.t : x \in Members(out.value)}) >= 3
    /\ Len(out.value) >= 3

\* ------------------------------------------------------------------------
\* Properties of the recursive ray cast
\* ------------------------------------------------------------------------
Frames == {stack[k] : k \in 1..Len(stack)}
Running == stack # <<>>
Finished == stack = <<>> /\ result # None

\* the chain of nested color_at calls is at most n + 1 deep and each nested
\* call has one less than its caller
C3_Chain ==
    Running =>
        /\ Len(stack) <= stack[1].remaining + 1
        /\ \A k \in 2..Len(stack) : stack[k].remaining = stack[k - 1].remaining - 1

\* the steps one color_at call with budget n can still take, its nested calls
\* included: five of its own and two nested calls with budget n - 1
RECURSIVE StepsLeft(_)
StepsLeft(n) == IF n < 0 THEN 0 ELSE 5 + 2 * StepsLeft(n - 1)

\* the steps an activation can still take from where it stands, the nested
\* call it waits for not included
FrameSteps(f) ==
    CASE f.pc = "color_at"        -> StepsLeft(f.remaining)
      [] f.pc = "reflected_color" -> StepsLeft(f.remaining) - 1
      [] f.pc = "reflected_wait"  -> 3 + StepsLeft(f.remaining - 1)
      [] f.pc = "refracted_color" -> 3 + StepsLeft(f.remaining - 1)
      [] f.pc = "refracted_wait"  -> 2
      [] f.pc = "shade_hit"       -> 2
      [] f.pc = "return"          -> 1

RECURSIVE StackSteps(_)
StackSteps(s) ==
    IF s = <<>> THEN 0 ELSE FrameSteps(s[1]) + StackSteps(Tail(s))

\* the top activation stands at a step that can be taken
CanStep ==
    /\ Top.pc \in {"color_at", "reflected_color", "refracted_color",
                   "shade_hit", "return"}
    /\ Len(stack) < MaxStack

\* C3: color_at(ray, n) terminates for every world, ray and n: while a cast
\* runs a step can always be taken and every step lowers a natural number,
\* the count of the steps that are left. The chain of nested color_at calls
\* is never deeper than n + 1 and each nested call receives exactly one less
\* than its caller's budget.
C3_Terminates ==
    [][Running =>
          /\ C3_Chain /\ CanStep
          /\ StackSteps(stack') < StackSteps(stack)
          /\ StackSteps(stack') >= 0
          /\ stack' = <<>> => result' # None]_vars

C3_Witness ==
    /\ Running
    /\ Len(stack) >= 3
    /\ Len(stack) = stack[1].remaining + 1
    /\ \A f \in Frames : f.hit # None /\ HitMaterial(f).reflective = ONE
    /\ Top.pc = "return"

\* C4: with remaining = 0 reflected_color and refracted_color return black
\* whatever the material, and cast no ray: no activation with budget 0 waits
\* for a secondary ray and no budget goes below 0.
C4_BlackAtZero ==
    \A f \in Frames \cup (IF result = None THEN {} ELSE {result.val}) :
        /\ f.remaining >= 0
        /\ f.remaining = 0 =>
              /\ f.pc \notin {"reflected_wait", "refracted_wait"}
              /\ f.reflected = Black
              /\ f.refracted = Black

C4_Witness ==
    /\ Running
    /\ Top.remaining = 0
    /\ Top.pc = "shade_hit"
    /\ HitMaterial(Top).reflective > 0
    /\ HitMaterial(Top).transparency > 0
    /\ Len(stack) = 1
    /\ secondary_rays = 0

\* ------------------------------------------------------------------------
\* Properties of the world during ray casts
\* ------------------------------------------------------------------------
\* C16 as stated: no ray cast changes any field of any object of the world,
\* whatever its variant, nor the light.
C16_AsStated == [][objects' = objects /\ light' = light]_vars

\* the fields of a shape other than the saved_ray cell of a Test shape
Fields(shape) ==
    [kind |-> shape.kind, transform |-> shape.transform,
     inverse_transform |-> shape.inverse_transform, material |-> shape.material]

\* C16 amended: no ray cast changes the light, the number of objects, any
\* field of a Sphere or a Plane, or the transform, cached inverse or material
\* of a Test shape; the one thing a ray cast writes is the saved_ray cell of
\* a Test shape.
C16_OnlySavedRay ==
    [][/\ light' = light
       /\ DOMAIN objects' = DOMAIN objects
       /\ \A k \in DOMAIN objects :
              /\ Fields(objects'[k]) = Fields(objects[k])
              /\ objects[k].kind # "Test" => objects'[k] = objects[k]]_vars

C16_Witness ==
    /\ Finished
    /\ secondary_rays > 0
    /\ light # None
    /\ \E k \in DOMAIN objects :
            /\ objects[k].kind = "Test"
            /\ objects[k].saved_ray # None
            /\ objects[k].saved_ray.val # result.val.ray

\* ------------------------------------------------------------------------
\* Properties of is_shadowed
\* ------------------------------------------------------------------------
ShadowReturned == out # None /\ out.op = "is_shadowed"
TowardLight(point) == intersect_world(objects, ShadowRay(light, point))
LightDistance(point) == magnitude(Sub(light.val.position, point))

\* C7: with a light, is_shadowed(point) is true exactly when the nearest
\* intersection with positive t toward the light is nearer than the light;
\* with no light it is true.
C7_Shadowed ==
    ShadowReturned =>
        out.value =
            IF light = None THEN TRUE
            ELSE \E i \in Members(TowardLight(out.point)) :
                    /\ i.t > 0
                    /\ \A j \in Members(TowardLight(out.point)) :
                            j.t > 0 => i.t <= j.t
                    /\ i.t < LightDistance(out.point)

C7_Witness ==
    /\ ShadowReturned
    /\ light # None
    /\ \E i \in Members(TowardLight(out.point)) : i.t > LightDistance(out.point)
    /\ \A i \in Members(TowardLight(out.point)) :
            i.t <= 0 \/ i.t > LightDistance(out.point)
    /\ out.value = FALSE

C7_WitnessBetween ==
    /\ ShadowReturned
    /\ light # None
    /\ out.value = TRUE

\* ------------------------------------------------------------------------
\* Properties of color_at and shade_hit
\* ------------------------------------------------------------------------
Returned == {f \in Frames : f.pc = "return"}
                \cup (IF result = None THEN {} ELSE {result.val})

\* C8: in a world with no light color_at returns black for every ray and
\* every budget, whatever the materials.
C8_NoLightBlack ==
    light = None => \A f \in Returned : f.value = Black

C8_Witness ==
    /\ light = None
    /\ Finished
    /\ result.val.hit # None
    /\ result.val.remaining > 0
    /\ HitMaterial(result.val).ambient > 0
    /\ HitMaterial(result.val).reflective > 0
    /\ HitMaterial(result.val).transparency > 0
    /\ secondary_rays >= 2

NoPositive(ray) == \A i \in Members(intersect_world(objects, ray)) : i.t <= 0

\* C9: color_at returns black when the ray has no intersection with positive
\* t, for every budget, and casts no shadow ray and no secondary ray.
C9_MissBlack ==
    Finished /\ NoPositive(result.val.ray) =>
        /\ result.val.value = Black
        /\ calls = 1
        /\ shadow_rays = 0
        /\ secondary_rays = 0

C9_Witness ==
    /\ Finished
    /\ light # None
    /\ result.val.remaining > 0
    /\ intersect_world(objects, result.val.ray) # <<>>
    /\ NoPositive(result.val.ray)

\* C10: shade_hit returns surface + reflected * reflectance + refracted *
\* (1 - reflectance), reflectance from schlick, exactly when the material
\* has reflective > 0 and transparency > 0, and surface + reflected +
\* refracted otherwise.
C10_Blend ==
    \A f \in {g \in Returned : g.hit # None} :
        LET m == HitMaterial(f)
            r == schlick(f.comps.val)
        IN f.value =
            IF m.reflective > 0 /\ m.transparency > 0
            THEN Add(Add(f.surface, MulScalar(f.reflected, r)),
                     MulScalar(f.refracted, ONE - r))
            ELSE Add(Add(f.surface, f.reflected), f.refracted)

C10_Witness ==
    /\ Finished
    /\ result.val.hit # None
    /\ HitMaterial(result.val).reflective > 0
    /\ HitMaterial(result.val).transparency > 0
    /\ result.val.reflected # Black
    /\ result.val.refracted # Black
    /\ result.val.value # Add(Add(result.val.surface, result.val.reflected),
                              result.val.refracted)

\* ------------------------------------------------------------------------
\* Properties of set_transform and the cached inverse
\* ------------------------------------------------------------------------
\* the transform and cached inverse of the holder a set_transform was
\* called on
Target(o) ==
    CASE o.target = "shape" -> Object(objects, o.object_id)
      [] o.target = "pattern" -> pattern.transform
      [] o.target = "camera" -> camera

Cache(h) == <<h.transform, h.inverse_transform>>

Holders == <<objects[1], objects[2], pattern.transform, camera>>

SetTransformReturned == out # None /\ out.op = "set_transform"

\* a scaling-then-translation matrix is singular when a scale factor is 0
Singular(m) == \E k \in 1..3 : m.s[k] = 0

\* inv undoes m on the corners of a cube
Undoes(inv, m) ==
    \A x \in {-2 * ONE, 4 * ONE}, y \in {-2 * ONE, 4 * ONE}, z \in {0, 6 * ONE} :
        MulPoint(inv, MulPoint(m, <<x, y, z>>)) = <<x, y, z>>

\* as its constructor left it: identity, nothing cached
Untouched(h) == h.transform = Identity /\ h.inverse_transform = None

\* C13: after set_transform(m) the holder's matrix is m and its cached
\* inverse is invert(m), absent exactly when m is singular; every holder
\* that was ever set caches the inverse of the matrix it has now, whatever
\* was set before; a second set_transform with the same matrix on the same
\* holder changes neither its matrix nor its cached inverse.
C13_SetTransform ==
    [][/\ SetTransformReturned' =>
            /\ Target(out)'.transform = out'.matrix
            /\ Target(out)'.inverse_transform = inverse(out'.matrix)
            /\ Target(out)'.inverse_transform = None <=> Singular(out'.matrix)
            /\ ~Singular(out'.matrix) =>
                    Undoes(Target(out)'.inverse_transform.val, out'.matrix)
       /\ \A k \in 1..4 :
            \/ Untouched(Holders[k])'
            \/ Holders[k]'.inverse_transform = inverse(Holders[k]'.transform)
       /\ (/\ SetTransformReturned /\ SetTransformReturned'
           /\ out'.target = out.target /\ out'.object_id = out.object_id
           /\ out'.matrix = out.matrix) =>
                Cache(Target(out))' = Cache(Target(out))]_vars

\* the last call set a singular matrix while another holder caches the
\* inverse of a matrix that is neither the identity nor singular
C13_Witness ==
    /\ SetTransformReturned
    /\ Singular(out.matrix)
    /\ Target(out).inverse_transform = None
    /\ \E k \in 1..4 :
            /\ Holders[k].transform \notin {Identity, out.matrix}
            /\ Holders[k].inverse_transform # None

\* C14 as stated: every shape and pattern caches the inverse of the matrix
\* it has, however it was made.
C14_AsStated ==
    \A k \in 1..3 :
        Holders[k].inverse_transform = inverse(Holders[k].transform)

\* ------------------------------------------------------------------------
\* Properties of intersect and normal_at under a singular transform
\* ------------------------------------------------------------------------
IntersectReturned == out # None /\ out.op = "intersect"
NormalAtReturned == out # None /\ out.op = "normal_at"

\* the shape the call was made on, and the same shape with the identity
\* transform
Asked == Object(objects, out.object_id)
AskedAtIdentity == set_transform(Asked, Identity)

\* C15: on a shape whose transform is singular, so that no inverse is
\* cached, intersect returns what it returns for the same shape with the
\* identity transform, and so does normal_at.
C15_SingularAsIdentity ==
    /\ (IntersectReturned /\ Singular(Asked.transform)) =>
            /\ Asked.inverse_transform = None
            /\ out.value = ShapeIntersect(AskedAtIdentity, out.ray,
                                          out.object_id)
    /\ (NormalAtReturned /\ Singular(Asked.transform)) =>
            /\ Asked.inverse_transform = None
            /\ out.value = ShapeNormalAt(AskedAtIdentity, out.point)

\* a ray hit a shape whose transform is singular twice, and that matrix
\* would have moved the ray's origin
C15_Witness ==
    /\ IntersectReturned
    /\ Singular(Asked.transform)
    /\ Len(out.value) = 2
    /\ MulPoint(Asked.transform, out.ray.origin) # out.ray.origin

\* normal_at answered on a shape whose transform is singular
C15_WitnessNormal ==
    /\ NormalAtReturned
    /\ Singular(Asked.transform)
    /\ out.value # <<0, ONE, 0>>

\* ------------------------------------------------------------------------
\* Properties of refracted_color
\* ------------------------------------------------------------------------
\* total internal reflection: sin2_t = (n1 / n2)^2 * (1 - cos_i^2) > 1
TotalInternalReflection(comps) ==
    LET n_ratio == FDiv(comps.n1, comps.n2)
        cos_i == dot(comps.eyev, comps.normalv)
    IN FMul(FMul(n_ratio, n_ratio), ONE - FMul(cos_i, cos_i)) > ONE

AtRefractedColor == Running /\ Top.pc = "refracted_color"

\* color_at is about to return to a refracted_color that waits for it
BackToRefractedColor ==
    /\ Len(stack) >= 2
    /\ Top.pc = "return"
    /\ stack[Len(stack) - 1].pc = "refracted_wait"

\* refracted_color answers black at once
RefractedBlack ==
    \/ HitMaterial(Top).transparency = 0
    \/ Top.remaining = 0
    \/ TotalInternalReflection(Top.comps.val)

\* C20: refracted_color returns black and casts no ray when the material's
\* transparency is 0, when remaining is 0 or under total internal
\* reflection; otherwise it casts one ray, from under_point, with budget
\* remaining - 1, and returns the color that comes back scaled by the
\* transparency, casting nothing more.
C20_RefractedColor ==
    [][/\ (AtRefractedColor /\ RefractedBlack) =>
            /\ Len(stack') = Len(stack)
            /\ stack'[Len(stack)].pc = "shade_hit"
            /\ stack'[Len(stack)].refracted = Black
            /\ secondary_rays' = secondary_rays
            /\ calls' = calls
       /\ (AtRefractedColor /\ ~RefractedBlack) =>
            /\ Len(stack') = Len(stack) + 1
            /\ stack'[Len(stack)].pc = "refracted_wait"
            /\ stack'[Len(stack')].pc = "color_at"
            /\ stack'[Len(stack')].ray.origin = Top.comps.val.under_point
            /\ stack'[Len(stack')].remaining = Top.remaining - 1
            /\ secondary_rays' = secondary_rays + 1
       /\ BackToRefractedColor =>
            /\ Len(stack') = Len(stack) - 1
            /\ stack'[Len(stack')].pc = "shade_hit"
            /\ stack'[Len(stack')].refracted =
                    MulScalar(Top.value,
                              HitMaterial(stack[Len(stack) - 1]).transparency)
            /\ secondary_rays' = secondary_rays]_vars

\* refracted_color stands before a total internal reflection on a
\* transparent material with budget left
C20_Witness ==
    /\ AtRefractedColor
    /\ HitMaterial(Top).transparency > 0
    /\ Top.remaining > 0
    /\ TotalInternalReflection(Top.comps.val)

\* a refracted ray came back with a color that is not black and was scaled
\* by a transparency below 1
C20_WitnessScaled ==
    /\ Running
    /\ Top.pc = "shade_hit"
    /\ HitMaterial(Top).transparency \in 1..(ONE - 1)
    /\ Top.refracted # Black

\* ------------------------------------------------------------------------
\* Properties of render and render_par
\* ------------------------------------------------------------------------
InRenderPar == out # None /\ out.op = "render_par"

\* the writes cell number k (from 0) has taken
Writes(k) == image.data[k + 1].from
Cells == 0..(Len(image.data) - 1)

\* the cells of the row slice handed to worker w
RowSlice(w) ==
    LET row == par_rows_mut(image)[w]
    IN row.start..(row.start + row.len - 1)

\* the workers that have written so far
Writers ==
    UNION {{Writes(k)[i].worker : i \in 1..Len(Writes(k))} : k \in Cells}

\* C17: in the row-parallel render the worker of a row writes cells of its
\* own row slice only, and no cell is written by two workers.
C17_OwnRowOnly ==
    InRenderPar =>
        \A k \in Cells :
            \A i \in 1..Len(Writes(k)) :
                /\ Writes(k)[i].worker = Writes(k)[i].y + 1
                /\ k \in RowSlice(Writes(k)[i].worker)
                /\ \A j \in 1..Len(Writes(k)) :
                        Writes(k)[j].worker = Writes(k)[i].worker

\* two workers have written, and one has asked for a cell past the end of
\* its slice
C17_Witness ==
    /\ InRenderPar
    /\ Cardinality(Writers) >= 2
    /\ \E w \in 1..Len(tasks) : tasks[w].pc = "panicked"

\* every worker of a render of two rows or more is done
C17_WitnessDone ==
    /\ InRenderPar
    /\ Len(tasks) >= 2
    /\ \A w \in 1..Len(tasks) : tasks[w].pc = "done"

\* the pixels of the image, cell by cell
Pixels == [k \in 1..Len(image.data) |-> image.data[k].pixel]

\* render_par has come to its end: every row is done or a worker panicked
RenderParStopped ==
    /\ InRenderPar
    /\ \/ out.panicked
       \/ \A w \in 1..Len(tasks) : tasks[w].pc = "done"

\* C18 as stated: however the rows were interleaved, the row-parallel render
\* ends with the image the sequential render of the same world gave.
C18_AsStated ==
    (RenderParStopped /\ out.sequential # None) =>
        /\ ~out.panicked
        /\ ~out.sequential.val.panicked
        /\ Pixels = out.sequential.val.pixels

\* C19 as stated: for every size, render returns an image in which every
\* pixel (y, x) of [0, VSIZE) x [0, HSIZE) was written once, into a cell of
\* the buffer that took no other write.
C19_AsStated ==
    RenderEnded =>
        /\ ~out.panicked
        /\ \A y \in 0..(camera.vsize - 1), x \in 0..(camera.hsize - 1) :
                \E k \in Cells :
                    /\ Writes(k) = <<[y |-> y, x |-> x, worker |-> 0]>>
                    /\ \A other \in Cells \ {k} :
                            \A i \in 1..Len(Writes(other)) :
                                <<Writes(other)[i].y, Writes(other)[i].x>>
                                    # <<y, x>>

\* ------------------------------------------------------------------------
\* Properties of reflected_color
\* ------------------------------------------------------------------------
AtReflectedColor == Running /\ Top.pc = "reflected_color"

\* color_at is about to return to a reflected_color that waits for it
BackToReflectedColor ==
    /\ Len(stack) >= 2
    /\ Top.pc = "return"
    /\ stack[Len(stack) - 1].pc = "reflected_wait"

\* C21: reflected_color returns black and casts no ray when the material's
\* reflective is 0; with remaining > 0 and reflective not 0 it casts one
\* ray, from over_point along reflectv, with budget remaining - 1, and
\* returns the color that comes back scaled by reflective, casting nothing
\* more.
C21_ReflectedColor ==
    [][/\ (AtReflectedColor /\ HitMaterial(Top).reflective = 0) =>
            /\ Len(stack') = Len(stack)
            /\ stack'[Len(stack)].pc = "refracted_color"
            /\ stack'[Len(stack)].reflected = Black
            /\ secondary_rays' = secondary_rays
            /\ calls' = calls
       /\ (/\ AtReflectedColor
           /\ Top.remaining > 0
           /\ HitMaterial(Top).reflective # 0) =>
            /\ Len(stack') = Len(stack) + 1
            /\ stack'[Len(stack)].pc = "reflected_wait"
            /\ stack'[Len(stack')].pc = "color_at"
            /\ stack'[Len(stack')].ray.origin = Top.comps.val.over_point
            /\ stack'[Len(stack')].ray.direction = Top.comps.val.reflectv
            /\ stack'[Len(stack')].remaining = Top.remaining - 1
            /\ secondary_rays' = secondary_rays + 1
       /\ BackToReflectedColor =>
            /\ Len(stack') = Len(stack) - 1
            /\ stack'[Len(stack')].pc = "refracted_color"
            /\ stack'[Len(stack')].reflected =
                    MulScalar(Top.value,
                              HitMaterial(stack[Len(stack) - 1]).reflective)
            /\ secondary_rays' = secondary_rays]_vars

\* a reflection ray came back with a color that is not black and was
\* scaled by a reflective below 1
C21_Witness ==
    /\ Running
    /\ Top.pc = "refracted_color"
    /\ HitMaterial(Top).reflective \in 1..(ONE - 1)
    /\ Top.remaining > 0
    /\ Top.reflected # Black

\* ------------------------------------------------------------------------
\* Properties of the local intersections
\* ------------------------------------------------------------------------
PlaneAnswered == out.op = "plane"
SphereAnswered == out.op = "sphere"

\* C22: a plane's local intersection is empty whenever |direction.y| <
\* EPSILON, for a ray beside the plane and for a ray in it alike; for any
\* other ray it is one intersection with t = -origin.y / direction.y and
\* the index handed in.
C22_PlaneLocalIntersect ==
    PlaneAnswered =>
        IF Abs(out.ray.direction[2]) < EPSILON
        THEN out.value = <<>>
        ELSE /\ Len(out.value) = 1
             /\ out.value[1].t = FDiv(-out.ray.origin[2], out.ray.direction[2])
             /\ out.value[1].object_id = out.object_id

\* a ray lying in the plane was asked
C22_Witness ==
    /\ PlaneAnswered
    /\ out.ray.origin[2] = 0
    /\ out.ray.direction[2] = 0
    /\ out.object_id = 1

\* a ray that leaves the plane's side at the smallest slope was asked
C22_WitnessSteep ==
    /\ PlaneAnswered
    /\ out.ray.direction[2] = EPSILON
    /\ Len(out.value) = 1
    /\ out.value[1].t < 0

\* |origin x direction|^2 and |direction|^2: the ray's line touches the
\* unit sphere when the two are equal and misses it when the first is
\* larger
Cross(a, b) ==
    <<FMul(a[2], b[3]) - FMul(a[3], b[2]), FMul(a[3], b[1]) - FMul(a[1], b[3]),
      FMul(a[1], b[2]) - FMul(a[2], b[1])>>
Moment2(ray) == dot(Cross(ray.origin, ray.direction),
                    Cross(ray.origin, ray.direction))
Length2(ray) == dot(ray.direction, ray.direction)

\* the discriminant b^2 - 4ac of the ray against the unit sphere
Discriminant(ray) ==
    LET a == dot(ray.direction, ray.direction)
        b == 2 * dot(ray.direction, ray.origin)
        c == dot(ray.origin, ray.origin) - ONE
    IN FMul(b, b) - 4 * FMul(a, c)

\* the coordinates of the ray are whole numbers, so that products are exact
Whole(ray) ==
    \A k \in 1..3 : ray.origin[k] % ONE = 0 /\ ray.direction[k] % ONE = 0

\* C23: the unit sphere answers a ray with nothing when the discriminant
\* is negative and else with two intersections t1 <= t2, negative ones
\* included, and with t1 = t2 when the ray is tangent to the sphere.
C23_SphereIntersect ==
    SphereAnswered =>
        /\ Discriminant(out.ray) < 0 => out.value = <<>>
        /\ Discriminant(out.ray) >= 0 =>
                /\ Len(out.value) = 2
                /\ out.value[1].t <= out.value[2].t
                /\ \A k \in 1..2 : out.value[k].object_id = out.object_id
        /\ (Whole(out.ray) /\ Moment2(out.ray) = Length2(out.ray)) =>
                /\ Len(out.value) = 2
                /\ out.value[1].t = out.value[2].t
        /\ (Whole(out.ray) /\ Moment2(out.ray) > Length2(out.ray)) =>
                out.value = <<>>

\* a tangent ray was asked
C23_Witness ==
    /\ SphereAnswered
    /\ Whole(out.ray)
    /\ Moment2(out.ray) = Length2(out.ray)
    /\ Len(out.value) = 2

\* the sphere is behind the ray: both roots are negative and unequal
C23_WitnessBehind ==
    /\ SphereAnswered
    /\ Len(out.value) = 2
    /\ out.value[1].t < out.value[2].t
    /\ out.value[2].t < 0

\* ------------------------------------------------------------------------
\* Properties of lightning
\* ------------------------------------------------------------------------
Lit == out.op = "lightning"

\* the colour of the surface at the point: the pattern's, or the material's
SurfaceColor(object, point) ==
    IF object.material.pattern = None THEN object.material.color
    ELSE pattern_at_shape(object.material.pattern.val, object, point)

AmbientTerm(object, lt, point) ==
    MulScalar(MulColor(SurfaceColor(object, point), lt.intensity),
              object.material.ambient)

\* the object with other diffuse, specular and shininess
Retuned(object, diffuse, specular, shininess) ==
    set_material(object, [object.material EXCEPT !.diffuse = diffuse,
                                                 !.specular = specular,
                                                 !.shininess = shininess])

\* C24: in shadow lightning returns the ambient term, colour x light
\* intensity x material.ambient, whatever eyev, normalv, diffuse, specular
\* and shininess are.
C24_ShadowIsAmbient ==
    (Lit /\ out.in_shadow) =>
        /\ out.value = AmbientTerm(out.object, out.light, out.point)
        /\ \A eyev \in LitEyes, normalv \in LitNormals, diffuse \in {0, 900},
              specular \in {0, 900}, shininess \in {10, 200} :
                lightning(Retuned(out.object, diffuse, specular, shininess),
                          out.light, out.point, eyev, normalv, TRUE) = out.value

\* a shadowed point that the light would have brightened
C24_Witness ==
    /\ Lit
    /\ out.in_shadow
    /\ out.value # Black
    /\ lightning(out.object, out.light, out.point, out.eyev, out.normalv,
                 FALSE) # out.value

\* a shadowed point on a striped, scaled object
C24_WitnessPattern ==
    /\ Lit
    /\ out.in_shadow
    /\ out.object.material.pattern # None
    /\ out.object.inverse_transform # None
    /\ out.value # Black

\* ------------------------------------------------------------------------
\* Properties of prepare_computations: the inside flag
\* ------------------------------------------------------------------------
\* the calls of color_at that have prepared their computations
Prepared == {f \in Frames : f.comps # None}

\* object.normal_at(point) for the hit of the frame
NormalAsComputed(f) ==
    ShapeNormalAt(Object(objects, f.comps.val.object_id), f.comps.val.point)

\* C25: inside is true and the normal is negated exactly when the normal
\* at the hit and eyev have a negative dot product, so the returned normalv
\* never points away from the eye; with inside false the normal is the one
\* normal_at gave.
C25_Inside ==
    \A f \in Prepared :
        LET comps == f.comps.val
        IN /\ comps.eyev = Neg(f.ray.direction)
           /\ comps.inside <=> dot(NormalAsComputed(f), comps.eyev) < 0
           /\ comps.inside => comps.normalv = Neg(NormalAsComputed(f))
           /\ ~comps.inside => comps.normalv = NormalAsComputed(f)
           /\ dot(comps.normalv, comps.eyev) >= 0

\* a hit from inside an object, its normal turned towards the eye
C25_Witness ==
    \E f \in Prepared :
        /\ f.comps.val.inside
        /\ f.comps.val.normalv # NormalAsComputed(f)
        /\ dot(f.comps.val.normalv, f.comps.val.eyev) > 0

\* a hit from outside
C25_WitnessOutside ==
    \E f \in Prepared :
        /\ ~f.comps.val.inside
        /\ dot(f.comps.val.normalv, f.comps.val.eyev) > 0

\* ------------------------------------------------------------------------
\* Properties of the object indices
\* ------------------------------------------------------------------------
\* an index into world.objects
InRange(object_id) == object_id \in 0..(Len(objects) - 1)

\* the intersections color_at takes for the ray of a call
Taken(f) == intersect_world(objects, f.ray)

\* the containment list after the first k entries of a list were replayed
Containers(list, k) ==
    IF k = 0 THEN <<>>
    ELSE RefractionLoop(SubSeq(list, 1, k), list[1], objects, ONE, ONE,
                        <<>>).containers

\* C26: every intersection color_at takes from intersect_world carries an
\* index below the number of objects, the containment list of
\* prepare_computations holds such indices only, and so do the hit and the
\* computations of every call, at any depth.
C26_IndicesInRange ==
    \A f \in Frames :
        /\ \A k \in 1..Len(Taken(f)) : InRange(Taken(f)[k].object_id)
        /\ \A k \in 0..Len(Taken(f)) :
              \A j \in 1..Len(Containers(Taken(f), k)) :
                  InRange(Containers(Taken(f), k)[j])
        /\ f.hit # None => InRange(f.hit.val.object_id)
        /\ f.comps # None => InRange(f.comps.val.object_id)

\* a secondary ray has hit the last object of a world of two, and its list
\* holds intersections of both
C26_Witness ==
    /\ Len(stack) >= 2
    /\ Len(objects) = 2
    /\ Top.comps # None
    /\ Top.comps.val.object_id = 1
    /\ \E k \in 1..Len(Taken(Top)) : Taken(Top)[k].object_id = 0
    /\ \E k \in 1..Len(Taken(Top)) : Len(Containers(Taken(Top), k)) = 2

\* ------------------------------------------------------------------------
\* Properties of the number of rays
\* ------------------------------------------------------------------------
\* a primary color_at call is running or has returned
Started == Running \/ result # None

\* the activation of the primary call
Primary == IF Running THEN stack[1] ELSE result.val

\* C27: a primary color_at(ray, n) makes at most 2^(n+1) - 1 color_at
\* invocations, itself included, with at most one shadow test each; with
\* n = 0 it is the only invocation and no secondary ray is cast.
C27_RayCount ==
    Started =>
        /\ calls <= 2^(Primary.remaining + 1) - 1
        /\ secondary_rays <= 2^(Primary.remaining + 1) - 2
        /\ shadow_rays <= calls
        /\ Primary.remaining = 0 =>
                /\ secondary_rays = 0
                /\ Len(stack) <= 1
                /\ calls <= 1
                /\ Finished => calls = 1

\* a primary call with budget 1 that cast both secondary rays: the bound
\* is met
C27_Witness ==
    /\ Finished
    /\ Primary.remaining = 1
    /\ calls = 3
    /\ secondary_rays = 2
    /\ shadow_rays > 0

\* a primary call with budget 0 on a mirror and glass surface
C27_WitnessZero ==
    /\ Finished
    /\ Primary.remaining = 0
    /\ Primary.comps # None
    /\ HitMaterial(Primary).reflective > 0
    /\ HitMaterial(Primary).transparency > 0
    /\ calls = 1

\* a primary call with budget 2 whose secondary rays cast rays themselves
C27_WitnessDeep ==
    /\ Finished
    /\ Primary.remaining = 2
    /\ calls >= 5

\* ------------------------------------------------------------------------
\* Properties of the containment list
\* ------------------------------------------------------------------------
\* no index occurs twice
Distinct(containers) ==
    \A j, k \in 1..Len(containers) : containers[j] = containers[k] => j = k

\* the number of intersections of list that belong to an object
Occurrences(list, object_id) ==
    Cardinality({k \in 1..Len(list) : list[k].object_id = object_id})

EvenCounts(list) ==
    \A object_id \in 0..(Len(objects) - 1) : Occurrences(list, object_id) % 2 = 0

\* C28: at every step of the replay in prepare_computations the
\* containment list holds no index twice; an intersection takes its
\* object's index out if it is there and appends it if not, and after a
\* list in which every object occurs an even number of times the list is
\* empty.
C28_Containers ==
    PrepareReturned =>
        /\ \A k \in 0..Len(xs) : Distinct(Containers(xs, k))
        /\ \A k \in 1..Len(xs) :
              LET before == Containers(xs, k - 1)
                  id == xs[k].object_id
              IN IF \E j \in 1..Len(before) : before[j] = id
                 THEN Containers(xs, k) = SelectSeq(before, LAMBDA x : x # id)
                 ELSE Containers(xs, k) = Append(before, id)
        /\ EvenCounts(xs) => Containers(xs, Len(xs)) = <<>>

\* two overlapping objects, entered and left in the same order: the index
\* taken out is not the last one of the list
C28_Witness ==
    /\ PrepareReturned
    /\ Len(xs) = 4
    /\ EvenCounts(xs)
    /\ xs[1].object_id = xs[3].object_id
    /\ xs[2].object_id = xs[4].object_id
    /\ xs[1].object_id # xs[2].object_id
    /\ Len(Containers(xs, 2)) = 2
    /\ Containers(xs, 3) = <<xs[2].object_id>>

\* ------------------------------------------------------------------------
\* Properties of a shape at the identity transform
\* ------------------------------------------------------------------------
\* the shape as its constructor makes it, and after set_transform(identity)
FreshShape(kind) == ShapeNew(kind)
IdentitySet(kind) == set_transform(ShapeNew(kind), Identity)

\* the call was made on a shape that was never transformed
AskedFresh == Asked.transform = Identity /\ Asked.inverse_transform = None

\* the call was made on a shape whose last set_transform gave the identity
AskedIdentitySet ==
    Asked.transform = Identity /\ Asked.inverse_transform # None

\* C29: a shape as constructed, with the identity transform and no cached
\* inverse, answers intersect and normal_at for every ray and point as the
\* same shape does after set_transform(identity).
C29_FreshAsIdentity ==
    /\ (IntersectReturned /\ AskedFresh) =>
            out.value = ShapeIntersect(IdentitySet(Asked.kind), out.ray,
                                       out.object_id)
    /\ (IntersectReturned /\ AskedIdentitySet) =>
            out.value = ShapeIntersect(FreshShape(Asked.kind), out.ray,
                                       out.object_id)
    /\ (NormalAtReturned /\ AskedFresh) =>
            out.value = ShapeNormalAt(IdentitySet(Asked.kind), out.point)
    /\ (NormalAtReturned /\ AskedIdentitySet) =>
            out.value = ShapeNormalAt(FreshShape(Asked.kind), out.point)

\* normal_at answered on a fresh sphere at a point off the unit sphere
C29_Witness ==
    /\ NormalAtReturned
    /\ AskedFresh
    /\ Asked.kind = "Sphere"
    /\ out.point # out.value

\* a fresh shape was hit by a ray
C29_WitnessIntersect ==
    /\ IntersectReturned
    /\ AskedFresh
    /\ out.value # <<>>

\* a shape was set back to the identity and then hit by a ray
C29_WitnessSet ==
    /\ IntersectReturned
    /\ AskedIdentitySet
    /\ Asked.inverse_transform = Some(Identity)
    /\ out.value # <<>>

\* ------------------------------------------------------------------------
\* Properties of set_material, set_transform and their getters
\* ------------------------------------------------------------------------
\* the shape a call is made on, before and after the call
Before(call) == objects[call.object_id + 1]
After(call) == objects'[call.object_id + 1]

\* C30: on every shape variant set_material changes the material and
\* nothing else, set_transform the transform and the cached inverse and
\* nothing else, no other call changes either, and get_material and
\* get_transform return what the shape holds: the last material and the
\* last matrix set.
C30_Frame ==
    [][ /\ out'.op = "set_material" =>
            /\ After(out') = [Before(out') EXCEPT !.material = out'.material]
            /\ get_material(After(out')) = out'.material
            /\ get_transform(After(out')) = get_transform(Before(out'))
            /\ After(out').inverse_transform = Before(out').inverse_transform
        /\ out'.op = "set_transform" =>
            /\ After(out') = [Before(out') EXCEPT
                    !.transform = out'.matrix,
                    !.inverse_transform = After(out').inverse_transform]
            /\ get_transform(After(out')) = out'.matrix
            /\ get_material(After(out')) = get_material(Before(out'))
        /\ out'.op = "get_material" =>
            /\ objects' = objects
            /\ out'.value = Before(out').material
        /\ out'.op = "get_transform" =>
            /\ objects' = objects
            /\ out'.value = Before(out').transform
        /\ out'.op = "intersect" =>
            /\ After(out').material = Before(out').material
            /\ After(out').transform = Before(out').transform
            /\ After(out').inverse_transform = Before(out').inverse_transform
      ]_vars

\* get_material answered with the glass set before the shape was moved and
\* hit by a ray
C30_Witness ==
    /\ out # None
    /\ out.op = "get_material"
    /\ out.value = Glass
    /\ Asked.kind = "Test"
    /\ Asked.saved_ray # None
    /\ Asked.transform = translation(0, ONE, 0)
    /\ Asked.inverse_transform # None

\* get_transform answered on a plane whose material was set after its
\* transform
C30_WitnessTransform ==
    /\ out # None
    /\ out.op = "get_transform"
    /\ out.value = scaling(0, ONE, ONE)
    /\ Asked.kind = "Plane"
    /\ Asked.material # MaterialDefault

============================================================================
